---- MODULE Spec2Model ----
(***************************************************************************)
(* A model of lsst/log, the logging facade over log4cxx.                   *)
(*                                                                         *)
(* The repository holds several revisions of the same units side by side.  *)
(* Where revisions differ in the behaviour a property is about, the model  *)
(* carries the revision as a variable fixed by Init (ctxRev, ...), and an  *)
(* action does what the code of that revision does.                        *)
(*                                                                         *)
(* Strings are sequences of one-character strings, so that empty(),        *)
(* find('.'), find_last_of('.'), substr and the comparison with "root"     *)
(* are computed as the code computes them.                                 *)
(***************************************************************************)
EXTENDS Integers, Sequences, FiniteSets, TLC

(***************************************************************************)
(* The state.  The parts of the program are modelled each with its own     *)
(* variables and its own specification; a step of one part leaves the      *)
(* variables of the other parts alone.                                     *)
(***************************************************************************)
VARIABLES
    ctxRev,             \* revision of the context code
    defaultLogger,      \* Log::defaultLogger / Log::_defaultLogger()
    loggers,            \* names of the loggers the log4cxx repository holds
    context,            \* part_013: std::stack<std::string> Log::context
    defaultLoggerName,  \* part_013: std::string Log::defaultLoggerName
    ctxCall,            \* the last call made and how it ended
    crashed,            \* the process has been terminated
    frames              \* history: the pushes that succeeded and are not yet popped

ctxVars == <<ctxRev, defaultLogger, loggers, context, defaultLoggerName,
             ctxCall, crashed, frames>>

VARIABLES
    mdcInitFunctions,   \* std::vector<std::function<void()>> mdcInitFunctions
    mdcInitMutex,       \* std::mutex mdcInitMutex: the thread that holds it
    tlsInit,            \* per thread: pthread_getspecific(pthreadKey.key) != nullptr
    pc,                 \* per thread: where the thread is in its call
    funArg,             \* per thread: the function of its MDCRegisterInit call
    funIter,            \* per thread: position of the loop over mdcInitFunctions
    mdcCounter,         \* per thread and function: times the function ran there
    mdc,                \* per thread: the log4cxx MDC map
    forwarded,          \* per thread: messages handed to forcedLog
    firstRecord,        \* history, per thread: the MDC of its first message
    registrar,          \* history, per function: the thread that registered it
    regLoggedBefore,    \* history, per function: had the registrar logged before
    regAtEntry,         \* history, per thread: registry when its first log call began
    regAtSpawn,         \* history, per thread: registry when the thread was started
    regReturn,          \* per thread: what its MDCRegisterInit call returned
    initOrder           \* history, per thread: the functions its first log call ran

mdcVars == <<mdcInitFunctions, mdcInitMutex, tlsInit, pc, funArg, funIter,
             mdcCounter, mdc, forwarded, firstRecord, registrar,
             regLoggedBefore, regAtEntry, regAtSpawn, regReturn, initOrder>>

VARIABLES
    initRev,            \* which revision of Log.cc is built
    envReadable,        \* LSST_LOG_CONFIG names a readable file
    log4cxxConfiguration, \* LOG4CXX_CONFIGURATION has been set
    doBasicConfig,      \* part_000: bool doBasicConfig
    defaultGuard,       \* part_000: state of the static in _defaultLogger()
    ipc,                \* per thread: where the thread is in its log call
    initLogged,         \* per thread: log calls begun
    establishCount,     \* history: establishing actions so far
    basicConfigured,    \* BasicConfigurator::configure() has run
    fwdCount,           \* messages handed to forcedLog
    establishAtFirstFwd, \* history: establishCount at the first forcedLog
    conf,               \* the configuration the log4cxx hierarchy holds
    confCall            \* history: the last configure call and its inputs

initVars == <<initRev, envReadable, log4cxxConfiguration, doBasicConfig,
              defaultGuard, ipc, initLogged, establishCount, basicConfigured,
              fwdCount, establishAtFirstFwd, conf, confCall>>

VARIABLES
    appRev,             \* which revision of PyLogAppender.cc is built
    m_cache,            \* LRUCache m_cache: logger name -> age
    m_lru_age,          \* uint32_t m_lru_age
    gil,                \* the thread that holds the Python GIL
    apc,                \* per thread: where the thread is in append
    logger_name,        \* per thread: the logger name of its event
    logger,             \* per thread: logger != nullptr
    touched,            \* history: cached names, least recently touched first
    overflowed,         \* history: m_lru_age has wrapped to 0
    appCall             \* history: the last store into the cache

cacheVars == <<appRev, m_cache, m_lru_age, gil, apc, logger_name, logger,
               touched, overflowed, appCall>>

VARIABLES
    lcRev,              \* which revision of class LogContext is built
    scopes,             \* the LogContext objects alive, innermost last
    scopeEnd            \* history: the last LogContext destroyed

scopeVars == <<lcRev, scopes, scopeEnd>>

VARIABLES
    pyRev,              \* which revision of PyLogAppender::append is built
    pyGil,              \* the thread that holds the Python GIL
    ppc,                \* per thread: where the thread is in append
    pyCached,           \* the logger of the event's name is in m_cache
    pyEvent,            \* per thread: the event and the answers Python gives to it
    pyLogger,           \* per thread: PyObjectPtr logger holds a reference
    pyKeysLeft,         \* per thread: MDC keys the loop has still to visit
    pyRecord,           \* per thread: the attributes of the Python LogRecord
    pyMdcDict,          \* per thread: part_014, the keys of record.MDC
    pyResult,           \* per thread: how the append call ended
    pyAppends,          \* append calls begun
    pyCalls,            \* history, per thread: what the call has done, in order
    pyFailed,           \* history, per thread: the first call into Python that failed
    pyUnguarded         \* history: accesses to Python objects made without the GIL

pyVars == <<pyRev, pyGil, ppc, pyCached, pyEvent, pyLogger, pyKeysLeft,
            pyRecord, pyMdcDict, pyResult, pyAppends, pyCalls, pyFailed,
            pyUnguarded>>

VARIABLES
    level,              \* the level set on the logger the client logs to
    ucall,              \* per thread: the logging call it is in
    issued,             \* history, per thread: logging calls it has begun
    delivered,          \* history: the messages handed to forcedLog, in order
    handles,            \* history: the handles getLogger(name) has returned
    lastGet,            \* history: the last getLogger call and its result
    lastOp,             \* history: the last call of the client
    useOps              \* calls of the client so far

useVars == <<level, ucall, issued, delivered, handles, lastGet, lastOp,
             useOps>>

VARIABLES
    cbKind,             \* what the registered functions are: C++ functions that log, or Python callables
    cbGil,              \* the thread that holds the Python GIL
    cbFrom,             \* per thread: the place the function it runs was called from
    cbTook              \* per thread: callable_wrapper took the GIL and will release it

cbVars == <<cbKind, cbGil, cbFrom, cbTook>>

VARIABLES
    m_cache_mutex,      \* the thread that holds PyLogAppender's cache mutex
    gil_state,          \* per thread: what PyGILState_Ensure gave its GilGuard
    lpc,                \* per thread: its position in append, lock by lock
    lkExit,             \* history, per thread: how its last append ended
    lkOps               \* append calls begun in the lock model

lockVars == <<m_cache_mutex, gil_state, lpc, lkExit, lkOps>>

notCtx == <<mdcVars, initVars, cacheVars, pyVars, useVars, cbVars, lockVars>>
notMdc == <<ctxVars, scopeVars, initVars, cacheVars, pyVars, useVars, cbVars, lockVars>>
notInit == <<ctxVars, scopeVars, mdcVars, cacheVars, pyVars, useVars, cbVars, lockVars>>
notCache == <<ctxVars, scopeVars, mdcVars, initVars, pyVars, useVars, cbVars, lockVars>>
notPy == <<ctxVars, scopeVars, mdcVars, initVars, cacheVars, useVars, cbVars, lockVars>>
notUse == <<scopeVars, initVars, cacheVars, pyVars, cbVars, lockVars>>
notCb == <<ctxVars, scopeVars, initVars, cacheVars, pyVars, useVars,
          lockVars>>
notLock == <<ctxVars, scopeVars, mdcVars, initVars, pyVars, useVars, cbVars>>

(***************************************************************************)
(* Bounds of the model.                                                    *)
(***************************************************************************)
\* longest default-logger name (in characters) a pushContext may build
MaxNameLen == 4
\* most pushContext calls that are in effect at one time
MaxDepth == 2
\* most LogContext objects alive at one time
MaxScopes == 2

(***************************************************************************)
(* std::string                                                             *)
(***************************************************************************)
npos == 0

Str_empty == << >>
Str_a     == <<"a">>
Str_dot   == <<".">>
Str_a_b   == <<"a", ".", "b">>
Str_root  == <<"r", "o", "o", "t">>

\* std::string::empty()
empty(s) == Len(s) = 0

\* std::string::find(c): index of the first c (1-based), npos when absent
find(s, c) ==
    IF \E i \in 1..Len(s) : s[i] = c
    THEN CHOOSE i \in 1..Len(s) : s[i] = c /\ \A j \in 1..(i - 1) : s[j] # c
    ELSE npos

\* std::string::find_last_of(c): index of the last c (1-based), npos when absent
find_last_of(s, c) ==
    IF \E i \in 1..Len(s) : s[i] = c
    THEN CHOOSE i \in 1..Len(s) : s[i] = c /\ \A j \in (i + 1)..Len(s) : s[j] # c
    ELSE npos

\* std::string::substr(0, pos) with pos a 1-based index: the characters before pos
substr0(s, pos) == SubSeq(s, 1, pos - 1)

(***************************************************************************)
(* The log4cxx logger repository, as the adapter uses it.  A handle is the *)
(* root logger (whose log4cxx name is "root") or a named logger; the named *)
(* loggers that exist are the set loggers.                                 *)
(***************************************************************************)
NoLogger == [isRoot |-> FALSE, isNull |-> TRUE, name |-> Str_empty]

\* log4cxx::Logger::getRootLogger()
getRootLogger == [isRoot |-> TRUE, isNull |-> FALSE, name |-> Str_root]

\* the handle log4cxx::Logger::getLogger(name) returns: a named logger, never
\* the root logger, also for the name "root"
getLogger_log4cxx(name) == [isRoot |-> FALSE, isNull |-> FALSE, name |-> name]

\* the dots of a name at which log4cxx looks for an ancestor, nearest first
RECURSIVE AncestorAt(_, _, _)
AncestorAt(name, i, existing) ==
    IF i = npos \/ i = 1
    THEN getRootLogger
    ELSE IF substr0(name, i) \in existing
         THEN getLogger_log4cxx(substr0(name, i))
         ELSE AncestorAt(name, find_last_of(substr0(name, i), "."), existing)

\* log4cxx::Logger::getParent(): null for the root logger, else the nearest
\* existing ancestor by dotted name, else the root logger
getParent_log4cxx(h, existing) ==
    IF h.isRoot THEN NoLogger
    ELSE AncestorAt(h.name, find_last_of(h.name, "."), existing)


(***************************************************************************)
(* The default-logger context (Log::pushContext, Log::popContext).         *)
(*                                                                         *)
(* ctxRev names the revision of Log.cc:                                    *)
(*   "part_000"  the default logger is a logger handle and popContext      *)
(*               rises to its parent (src/unnamed/part_000, the same code  *)
(*               as src/unnamed/part_005 and src/src/Log.cc);              *)
(*   "part_013"  the default logger name is a string kept next to a stack  *)
(*               of pushed names (src/unnamed/part_013).                   *)
(***************************************************************************)
CtxRevs == {"part_000", "part_013"}

\* the names handed to pushContext
CtxNames == {Str_empty, Str_a, Str_root, Str_a_b}

\* Log::getName(): the log4cxx name, with "root" turned into the empty string
getName(h) == IF h.name = Str_root THEN Str_empty ELSE h.name

\* Log::getDefaultLoggerName()
getDefaultLoggerName ==
    IF ctxRev = "part_013" THEN defaultLoggerName ELSE getName(defaultLogger)

\* pushContext's argument checks: "none" or the exception thrown
pushContextCheck(name) ==
    IF empty(name) THEN "invalid_argument"
    ELSE IF find(name, ".") # npos THEN "invalid_argument"
    ELSE "none"

\* pushContext's new default logger name, from the log4cxx name of the old one
pushContextNewName(oldName, name) ==
    IF oldName = Str_root THEN name ELSE oldName \o Str_dot \o name

\* part_013: the new defaultLoggerName
pushContextNewName_part_013(oldName, name) ==
    IF empty(oldName) THEN name ELSE oldName \o Str_dot \o name

\* what a single-segment name is
IsSegment(name) == ~empty(name) /\ \A i \in 1..Len(name) : name[i] # "."

\* history: the frame a successful push adds; a push of a name that is no
\* single segment also marks the frames under it
FramesAfterPush(name) ==
    Append([i \in 1..Len(frames) |->
               [frames[i] EXCEPT !.clean = frames[i].clean /\ IsSegment(name)]],
           [name |-> name, before |-> getDefaultLoggerName, clean |-> IsSegment(name)])

FramesAfterPop ==
    IF Len(frames) = 0 THEN frames ELSE SubSeq(frames, 1, Len(frames) - 1)

\* a pushContext that switches the default logger before it checks the name
pushContext_part_000_lateCheck(name) ==
    /\ ctxRev = "part_000"
    /\ LET newName == pushContextNewName(defaultLogger.name, name) IN
       /\ Len(newName) <= MaxNameLen
       /\ defaultLogger' = getLogger_log4cxx(newName)
       /\ loggers' = loggers \cup {newName}
       /\ frames' = IF pushContextCheck(name) # "none" THEN frames
                     ELSE FramesAfterPush(name)
       /\ ctxCall' = [op |-> "pushContext", name |-> name,
                       result |-> IF pushContextCheck(name) # "none"
                                  THEN pushContextCheck(name) ELSE "ok"]
    /\ UNCHANGED <<ctxRev, context, defaultLoggerName, crashed>>

pushContext_part_000(name) ==
    /\ ctxRev = "part_000"
    /\ IF pushContextCheck(name) # "none"
       THEN /\ ctxCall' = [op |-> "pushContext", name |-> name,
                           result |-> pushContextCheck(name)]
            /\ UNCHANGED <<defaultLogger, loggers, frames>>
       ELSE LET newName == pushContextNewName(defaultLogger.name, name) IN
            /\ Len(newName) <= MaxNameLen
            /\ defaultLogger' = getLogger_log4cxx(newName)
            /\ loggers' = loggers \cup {newName}
            /\ frames' = FramesAfterPush(name)
            /\ ctxCall' = [op |-> "pushContext", name |-> name, result |-> "ok"]
    /\ UNCHANGED <<ctxRev, context, defaultLoggerName, crashed>>

pushContext_part_013(name) ==
    /\ ctxRev = "part_013"
    /\ LET newName == pushContextNewName_part_013(defaultLoggerName, name) IN
       /\ Len(newName) <= MaxNameLen
       /\ context' = Append(context, name)
       /\ defaultLoggerName' = newName
       /\ defaultLogger' = getLogger_log4cxx(newName)
       /\ loggers' = loggers \cup {newName}
    /\ frames' = FramesAfterPush(name)
    /\ ctxCall' = [op |-> "pushContext", name |-> name, result |-> "ok"]
    /\ UNCHANGED <<ctxRev, crashed>>

\* Log::pushContext(name), as its callers see it
pushContextCall(name) ==
    /\ ~crashed
    /\ Len(frames) < MaxDepth
    /\ \/ pushContext_part_000(name)
       \/ pushContext_part_013(name)

\* Log::pushContext(name), called by the program
pushContext(name) ==
    /\ pushContextCall(name)
    /\ UNCHANGED scopeVars
    /\ UNCHANGED notCtx

\* a popContext that falls back to the root logger instead of the parent
popContextTarget_toRoot(h, existing) == getRootLogger

\* popContext's new default logger: the parent, or the logger itself at root
popContextTarget(h, existing) ==
    IF getParent_log4cxx(h, existing).isNull THEN h
    ELSE getParent_log4cxx(h, existing)

popContext_part_000 ==
    /\ ctxRev = "part_000"
    /\ defaultLogger' = popContextTarget(defaultLogger, loggers)
    /\ frames' = FramesAfterPop
    /\ ctxCall' = [op |-> "popContext", name |-> Str_empty, result |-> "ok"]
    /\ UNCHANGED <<ctxRev, loggers, context, defaultLoggerName, crashed>>

\* part_013: the name left after the last '.' and what follows it are cut off
popContextName_part_013(oldName) ==
    IF find_last_of(oldName, ".") = npos THEN Str_empty
    ELSE substr0(oldName, find_last_of(oldName, "."))

\* part_013: context.pop() on an empty std::stack is undefined: the process is
\* terminated, or the call goes on with the stack still empty
popContext_part_013 ==
    /\ ctxRev = "part_013"
    /\ \/ /\ Len(context) = 0
          /\ crashed' = TRUE
          /\ ctxCall' = [op |-> "popContext", name |-> Str_empty, result |-> "crash"]
          /\ UNCHANGED <<ctxRev, defaultLogger, loggers, context,
                         defaultLoggerName, frames>>
       \/ /\ context' = IF Len(context) = 0 THEN context
                        ELSE SubSeq(context, 1, Len(context) - 1)
          /\ defaultLoggerName' = popContextName_part_013(defaultLoggerName)
          /\ IF find_last_of(defaultLoggerName, ".") = npos
             THEN /\ defaultLogger' = getRootLogger
                  /\ loggers' = loggers
             ELSE /\ defaultLogger' =
                        getLogger_log4cxx(popContextName_part_013(defaultLoggerName))
                  /\ loggers' = loggers \cup
                        {popContextName_part_013(defaultLoggerName)}
          /\ frames' = FramesAfterPop
          /\ ctxCall' = [op |-> "popContext", name |-> Str_empty, result |-> "ok"]
          /\ UNCHANGED <<ctxRev, crashed>>

\* Log::popContext(), as its callers see it
popContextCall ==
    /\ ~crashed
    /\ \/ popContext_part_000
       \/ popContext_part_013

\* Log::popContext(), called by the program
popContext ==
    /\ popContextCall
    /\ UNCHANGED scopeVars
    /\ UNCHANGED notCtx

CtxInit ==
    /\ ctxRev \in CtxRevs
    /\ defaultLogger = getRootLogger
    /\ loggers = {}
    /\ context = << >>
    /\ defaultLoggerName = Str_empty
    /\ ctxCall = [op |-> "none", name |-> Str_empty, result |-> "none"]
    /\ crashed = FALSE
    /\ frames = << >>

CtxNext ==
    \/ \E name \in CtxNames : pushContext(name)
    \/ popContext

(***************************************************************************)
(* class LogContext.  Three revisions differ:                              *)
(*   part_009        the constructor calls pushContext, which throws for   *)
(*                   a bad name (then no object exists), the destructor    *)
(*                   calls popContext (over the Log.cc of part_000);       *)
(*   part_013        the constructor keeps the name and calls pushContext, *)
(*                   the destructor calls popContext when the name is not  *)
(*                   empty;                                                *)
(*   logInterface.h  src/include/lsst/log/logInterface.h: constructor and  *)
(*                   destructor call pushContext and popContext when the   *)
(*                   name is not empty.                                    *)
(* The last two are over the stack-based Log of part_013.  A destructor    *)
(* runs when its block is left, by its end or by an exception, so it can   *)
(* follow any step made inside the block.                                  *)
(***************************************************************************)
LcRevs(rev) ==
    IF rev = "part_000" THEN {"part_009"} ELSE {"part_013", "logInterface.h"}

NoScopeEnd ==
    [name |-> Str_empty, before |-> Str_empty, pushed |-> FALSE,
     popped |-> FALSE, exit |-> "none"]

\* does the constructor of this revision call pushContext for this name
ctorPushes(rev, name) == rev # "logInterface.h" \/ ~empty(name)

\* does the destructor of this revision call popContext for this name
dtorPops(rev, name) == rev = "part_009" \/ ~empty(name)

\* LogContext::LogContext(name)
LogContext_ctor(name) ==
    /\ Len(scopes) < MaxScopes
    /\ IF ctorPushes(lcRev, name)
       THEN pushContextCall(name)
       ELSE ~crashed /\ UNCHANGED ctxVars
    /\ scopes' = IF ctorPushes(lcRev, name) /\ ctxCall'.result # "ok"
                 THEN scopes
                 ELSE Append(scopes,
                             [name |-> name,
                              before |-> getDefaultLoggerName,
                              pushed |-> ctorPushes(lcRev, name),
                              frames |-> frames',
                              after |-> getDefaultLoggerName'])
    /\ UNCHANGED <<lcRev, scopeEnd>>
    /\ UNCHANGED notCtx

\* LogContext::~LogContext() of the innermost object, on leaving its block
\* normally or by an exception
LogContext_dtor(exit) ==
    /\ Len(scopes) > 0
    /\ IF dtorPops(lcRev, scopes[Len(scopes)].name)
       THEN popContextCall
       ELSE ~crashed /\ UNCHANGED ctxVars
    /\ scopes' = SubSeq(scopes, 1, Len(scopes) - 1)
    /\ scopeEnd' = [name |-> scopes[Len(scopes)].name,
                    before |-> scopes[Len(scopes)].before,
                    pushed |-> scopes[Len(scopes)].pushed,
                    popped |-> dtorPops(lcRev, scopes[Len(scopes)].name),
                    exit |-> exit]
    /\ UNCHANGED lcRev
    /\ UNCHANGED notCtx

ScopeInit ==
    /\ lcRev \in LcRevs(ctxRev)
    /\ scopes = << >>
    /\ scopeEnd = NoScopeEnd

\* no LogContext in use, as the other models see it
ScopeQuiet ==
    /\ ScopeInit
    /\ lcRev = IF ctxRev = "part_000" THEN "part_009" ELSE "part_013"

ScopeNext ==
    \/ \E name \in CtxNames : LogContext_ctor(name)
    \/ \E exit \in {"normal", "exception"} : LogContext_dtor(exit)

(***************************************************************************)
(* The MDC-init registry (Log::MDCRegisterInit) and the per-thread         *)
(* initialisation in Log::logMsg, src/unnamed/part_000 (the same code is   *)
(* in src/unnamed/part_005).  Each thread runs its calls step by step; a   *)
(* step that needs mdcInitMutex waits until the mutex is free.             *)
(***************************************************************************)
\* most log calls the threads make in all
MaxLogs == 3

Threads == {"main", "t1", "t2"}

\* the init functions handed to MDCRegisterInit; function f puts MDC key f
Callbacks == {"f", "g"}

NoThread == "none"
MdcUnset == "unset"
MdcValue == "OK"
NoRecord == [emitted |-> FALSE, mdc |-> [k \in Callbacks |-> MdcUnset]]

Range(f) == {f[i] : i \in DOMAIN f}

\* no MDCRegisterInit call of the thread has returned
NoReturn == [returned |-> FALSE, value |-> 0]

\* log calls begun so far, by all threads
LogCalls ==
    forwarded["main"] + forwarded["t1"] + forwarded["t2"]
    + Cardinality({t \in Threads : pc[t] \in {"lm_lock", "lm_run", "lm_fwd"}})

\* the effect of running init function cb on thread t: it counts the run in a
\* per-thread counter and puts its key into the thread's MDC
RunFunction(t, cb) ==
    /\ mdcCounter' = [mdcCounter EXCEPT ![t][cb] = @ + 1]
    /\ mdc' = [mdc EXCEPT ![t][cb] = MdcValue]

\* a new thread is started by a running thread; its thread-specific value is null
Spawn(t) ==
    /\ pc[t] = "unborn"
    /\ \E s \in Threads : pc[s] = "idle"
    /\ pc' = [pc EXCEPT ![t] = "idle"]
    /\ regAtSpawn' = [regAtSpawn EXCEPT ![t] = Range(mdcInitFunctions)]
    /\ UNCHANGED <<regReturn, initOrder,
                   mdcInitFunctions, mdcInitMutex, tlsInit, funArg, funIter,
                   mdcCounter, mdc, forwarded, firstRecord, registrar,
                   regLoggedBefore, regAtEntry>>
    /\ UNCHANGED notMdc

\* a logMsg that never marks the thread as initialised
logMsg_begin_noFlag(t) ==
    /\ pc[t] = "idle"
    /\ LogCalls < MaxLogs
    /\ pc' = [pc EXCEPT ![t] = "lm_lock"]
    /\ regAtEntry' = IF forwarded[t] = 0
                     THEN [regAtEntry EXCEPT ![t] = Range(mdcInitFunctions)]
                     ELSE regAtEntry
    /\ UNCHANGED <<regReturn, initOrder,
                   mdcInitFunctions, mdcInitMutex, tlsInit, funArg, funIter,
                   mdcCounter, mdc, forwarded, firstRecord, registrar,
                   regLoggedBefore, regAtSpawn>>
    /\ UNCHANGED notMdc

\* a logMsg that takes the mutex whatever the thread-specific flag says
logMsg_begin_alwaysLock(t) ==
    /\ pc[t] = "idle"
    /\ LogCalls < MaxLogs
    /\ tlsInit' = [tlsInit EXCEPT ![t] = TRUE]
    /\ pc' = [pc EXCEPT ![t] = "lm_lock"]
    /\ regAtEntry' = IF forwarded[t] = 0
                     THEN [regAtEntry EXCEPT ![t] = Range(mdcInitFunctions)]
                     ELSE regAtEntry
    /\ UNCHANGED <<mdcInitFunctions, mdcInitMutex, funArg, funIter,
                   mdcCounter, mdc, forwarded, firstRecord, registrar,
                   regLoggedBefore, regAtSpawn, regReturn, initOrder>>
    /\ UNCHANGED notMdc

\* Log::logMsg, entry: read the thread-specific flag; when it is null set it
\* and go on to the initialisation, else go straight to forcedLog
logMsg_begin(t) ==
    /\ pc[t] = "idle"
    /\ LogCalls < MaxLogs
    /\ IF ~tlsInit[t]
       THEN /\ tlsInit' = [tlsInit EXCEPT ![t] = TRUE]
            /\ pc' = [pc EXCEPT ![t] = "lm_lock"]
       ELSE /\ tlsInit' = tlsInit
            /\ pc' = [pc EXCEPT ![t] = "lm_fwd"]
    /\ regAtEntry' = IF forwarded[t] = 0
                     THEN [regAtEntry EXCEPT ![t] = Range(mdcInitFunctions)]
                     ELSE regAtEntry
    /\ UNCHANGED <<regReturn, initOrder,
                   mdcInitFunctions, mdcInitMutex, funArg, funIter,
                   mdcCounter, mdc, forwarded, firstRecord, registrar,
                   regLoggedBefore, regAtSpawn>>
    /\ UNCHANGED notMdc

\* Log::logMsg: std::lock_guard<std::mutex> lock(mdcInitMutex)
logMsg_lock(t) ==
    /\ pc[t] = "lm_lock"
    /\ mdcInitMutex = NoThread
    /\ mdcInitMutex' = t
    /\ funIter' = [funIter EXCEPT ![t] = 1]
    /\ pc' = [pc EXCEPT ![t] = "lm_run"]
    /\ UNCHANGED <<regReturn, initOrder,
                   mdcInitFunctions, tlsInit, funArg, mdcCounter, mdc,
                   forwarded, firstRecord, registrar, regLoggedBefore,
                   regAtEntry, regAtSpawn>>
    /\ UNCHANGED notMdc

\* a loop that calls none of the registered functions
logMsg_run_skip(t) ==
    /\ pc[t] = "lm_run"
    /\ mdcInitMutex' = NoThread
    /\ pc' = [pc EXCEPT ![t] = "lm_fwd"]
    /\ UNCHANGED <<regReturn, initOrder,
                   mdcInitFunctions, tlsInit, funArg, funIter, mdcCounter, mdc,
                   forwarded, firstRecord, registrar, regLoggedBefore,
                   regAtEntry, regAtSpawn>>
    /\ UNCHANGED notMdc

\* a loop that goes through mdcInitFunctions from its end
logMsg_run_reverse(t) ==
    /\ pc[t] = "lm_run"
    /\ IF funIter[t] <= Len(mdcInitFunctions)
       THEN /\ RunFunction(t, mdcInitFunctions[Len(mdcInitFunctions) + 1 - funIter[t]])
            /\ funIter' = [funIter EXCEPT ![t] = @ + 1]
            /\ initOrder' = [initOrder EXCEPT ![t] =
                   Append(@, mdcInitFunctions[Len(mdcInitFunctions) + 1 - funIter[t]])]
            /\ UNCHANGED <<mdcInitMutex, pc>>
       ELSE /\ mdcInitMutex' = NoThread
            /\ pc' = [pc EXCEPT ![t] = "lm_fwd"]
            /\ UNCHANGED <<funIter, mdcCounter, mdc, initOrder>>
    /\ UNCHANGED <<mdcInitFunctions, tlsInit, funArg, forwarded, firstRecord,
                   registrar, regLoggedBefore, regAtEntry, regAtSpawn,
                   regReturn>>
    /\ UNCHANGED notMdc

\* Log::logMsg: one turn of "for (auto& fun: mdcInitFunctions) fun();", and at
\* its end the release of the mutex
logMsg_run(t) ==
    /\ pc[t] = "lm_run"
    /\ IF funIter[t] <= Len(mdcInitFunctions)
       THEN /\ RunFunction(t, mdcInitFunctions[funIter[t]])
            /\ funIter' = [funIter EXCEPT ![t] = @ + 1]
            /\ initOrder' = [initOrder EXCEPT
                                ![t] = Append(@, mdcInitFunctions[funIter[t]])]
            /\ UNCHANGED <<mdcInitMutex, pc>>
       ELSE /\ mdcInitMutex' = NoThread
            /\ pc' = [pc EXCEPT ![t] = "lm_fwd"]
            /\ UNCHANGED <<funIter, mdcCounter, mdc, initOrder>>
    /\ UNCHANGED <<regReturn,
                   mdcInitFunctions, tlsInit, funArg, forwarded, firstRecord,
                   registrar, regLoggedBefore, regAtEntry, regAtSpawn>>
    /\ UNCHANGED notMdc

\* Log::logMsg: _logger->forcedLog(level, msg, location)
logMsg_forward(t) ==
    /\ pc[t] = "lm_fwd"
    /\ forwarded' = [forwarded EXCEPT ![t] = @ + 1]
    /\ firstRecord' = IF firstRecord[t].emitted THEN firstRecord
                      ELSE [firstRecord EXCEPT ![t] =
                               [emitted |-> TRUE, mdc |-> mdc[t]]]
    /\ pc' = [pc EXCEPT ![t] = "idle"]
    /\ UNCHANGED <<regReturn, initOrder,
                   mdcInitFunctions, mdcInitMutex, tlsInit, funArg, funIter,
                   mdcCounter, mdc, registrar, regLoggedBefore, regAtEntry,
                   regAtSpawn>>
    /\ UNCHANGED notMdc

\* Log::MDCRegisterInit(function), entry; each function is registered once
MDCRegisterInit_begin(t, cb) ==
    /\ pc[t] = "idle"
    /\ registrar[cb] = NoThread
    /\ registrar' = [registrar EXCEPT ![cb] = t]
    /\ regLoggedBefore' = [regLoggedBefore EXCEPT ![cb] = tlsInit[t]]
    /\ funArg' = [funArg EXCEPT ![t] = cb]
    /\ regReturn' = [regReturn EXCEPT ![t] = NoReturn]
    /\ pc' = [pc EXCEPT ![t] = "ri_lock"]
    /\ UNCHANGED <<initOrder,
                   mdcInitFunctions, mdcInitMutex, tlsInit, funIter,
                   mdcCounter, mdc, forwarded, firstRecord, regAtEntry,
                   regAtSpawn>>
    /\ UNCHANGED notMdc

\* an MDCRegisterInit that goes on without waiting for the mutex
MDCRegisterInit_lock_noWait(t) ==
    /\ pc[t] = "ri_lock"
    /\ mdcInitMutex' = t
    /\ pc' = [pc EXCEPT ![t] = "ri_call"]
    /\ UNCHANGED <<mdcInitFunctions, tlsInit, funArg, funIter, mdcCounter, mdc,
                   forwarded, firstRecord, registrar, regLoggedBefore,
                   regAtEntry, regAtSpawn, regReturn, initOrder>>
    /\ UNCHANGED notMdc

\* Log::MDCRegisterInit: std::lock_guard<std::mutex> lock(mdcInitMutex)
MDCRegisterInit_lock(t) ==
    /\ pc[t] = "ri_lock"
    /\ mdcInitMutex = NoThread
    /\ mdcInitMutex' = t
    /\ pc' = [pc EXCEPT ![t] = "ri_call"]
    /\ UNCHANGED <<regReturn, initOrder,
                   mdcInitFunctions, tlsInit, funArg, funIter, mdcCounter, mdc,
                   forwarded, firstRecord, registrar, regLoggedBefore,
                   regAtEntry, regAtSpawn>>
    /\ UNCHANGED notMdc

\* an MDCRegisterInit that stores the function without calling it
MDCRegisterInit_call_skip(t) ==
    /\ pc[t] = "ri_call"
    /\ pc' = [pc EXCEPT ![t] = "ri_push"]
    /\ UNCHANGED <<mdcInitFunctions, mdcInitMutex, tlsInit, funArg, funIter,
                   mdcCounter, mdc, forwarded, firstRecord, registrar,
                   regLoggedBefore, regAtEntry, regAtSpawn, regReturn,
                   initOrder>>
    /\ UNCHANGED notMdc

\* Log::MDCRegisterInit: function()
MDCRegisterInit_call(t) ==
    /\ pc[t] = "ri_call"
    /\ RunFunction(t, funArg[t])
    /\ pc' = [pc EXCEPT ![t] = "ri_push"]
    /\ UNCHANGED <<regReturn, initOrder,
                   mdcInitFunctions, mdcInitMutex, tlsInit, funArg, funIter,
                   forwarded, firstRecord, registrar, regLoggedBefore,
                   regAtEntry, regAtSpawn>>
    /\ UNCHANGED notMdc

\* Log::MDCRegisterInit: mdcInitFunctions.push_back(function); return 1
MDCRegisterInit_push(t) ==
    /\ pc[t] = "ri_push"
    /\ mdcInitFunctions' = Append(mdcInitFunctions, funArg[t])
    /\ mdcInitMutex' = NoThread
    /\ regReturn' = [regReturn EXCEPT ![t] = [returned |-> TRUE, value |-> 1]]
    /\ pc' = [pc EXCEPT ![t] = "idle"]
    /\ UNCHANGED <<initOrder,
                   tlsInit, funArg, funIter, mdcCounter, mdc, forwarded,
                   firstRecord, registrar, regLoggedBefore, regAtEntry,
                   regAtSpawn>>
    /\ UNCHANGED notMdc

MdcInit ==
    /\ mdcInitFunctions = << >>
    /\ mdcInitMutex = NoThread
    /\ tlsInit = [t \in Threads |-> FALSE]
    /\ pc = [t \in Threads |-> IF t = "main" THEN "idle" ELSE "unborn"]
    /\ funArg = [t \in Threads |-> "f"]
    /\ funIter = [t \in Threads |-> 1]
    /\ mdcCounter = [t \in Threads |-> [cb \in Callbacks |-> 0]]
    /\ mdc = [t \in Threads |-> [k \in Callbacks |-> MdcUnset]]
    /\ forwarded = [t \in Threads |-> 0]
    /\ firstRecord = [t \in Threads |-> NoRecord]
    /\ registrar = [cb \in Callbacks |-> NoThread]
    /\ regLoggedBefore = [cb \in Callbacks |-> FALSE]
    /\ regAtEntry = [t \in Threads |-> {}]
    /\ regAtSpawn = [t \in Threads |-> {}]
    /\ regReturn = [t \in Threads |-> NoReturn]
    /\ initOrder = [t \in Threads |-> << >>]

MdcNext ==
    \/ \E t \in Threads : Spawn(t)
    \/ \E t \in Threads : logMsg_begin(t)
    \/ \E t \in Threads : logMsg_lock(t)
    \/ \E t \in Threads : logMsg_run(t)
    \/ \E t \in Threads : logMsg_forward(t)
    \/ \E t \in Threads, cb \in Callbacks : MDCRegisterInit_begin(t, cb)
    \/ \E t \in Threads : MDCRegisterInit_lock(t)
    \/ \E t \in Threads : MDCRegisterInit_call(t)
    \/ \E t \in Threads : MDCRegisterInit_push(t)

(***************************************************************************)
(* Initialisation of the backend.  Three revisions of Log.cc differ:       *)
(*   part_000  globalInit() runs with the globals and log4cxxInit() runs   *)
(*             in the initialiser of the function-local static of          *)
(*             Log::_defaultLogger(), which the language runs once even    *)
(*             when threads race to it;                                    *)
(*   part_005  init() runs with the globals ("bool initialized = init()"); *)
(*   Log.cc    src/src/Log.cc, where init() is named only by the           *)
(*             initialiser of a static inside init() itself, so that no    *)
(*             code ever calls it.                                         *)
(* An establishing action is either handing the file named by              *)
(* LSST_LOG_CONFIG to the backend (setenv LOG4CXX_CONFIGURATION) or        *)
(* BasicConfigurator::configure().                                         *)
(***************************************************************************)
\* most log calls one thread makes in the initialisation model
MaxInitLogs == 2

InitRevs == {"part_000", "part_005", "Log.cc"}

\* the levels of log4cxx, lowest first
Levels == <<"TRACE", "DEBUG", "INFO", "WARN", "ERROR", "FATAL">>

LevelRank(l) == CHOOSE i \in 1..Len(Levels) : Levels[i] = l

\* log4cxx: a message of level l passes a logger whose level is threshold
isEnabledFor(l, threshold) == LevelRank(l) >= LevelRank(threshold)

\* BasicConfigurator::resetConfiguration(): the root logger has no appender
\* and the level DEBUG, no other logger keeps a setting of its own
resetConfiguration == [appenders |-> <<>>, level |-> "DEBUG", named |-> {}]

\* BasicConfigurator::configure(): one console appender more on the root
\* logger, nothing else is touched
BasicConfigurator_configure(c) ==
    [c EXCEPT !.appenders = Append(@, "console")]

\* the configurations a file or a property string can describe: the appender
\* and the level of the root logger, and the loggers given a level of their own
Configs ==
    [cfgA |-> [appender |-> "A", level |-> "INFO", named |-> {"x"}],
     cfgB |-> [appender |-> "B", level |-> "WARN", named |-> {}]]

ConfigNames == DOMAIN Configs

\* the file LSST_LOG_CONFIG names
EnvConfig == "cfgA"

\* PropertyConfigurator::configure / DOMConfigurator::configure: the root
\* logger gets the appender and the level of the configuration, the loggers
\* it names get their setting, the loggers it does not name keep theirs
PropertyConfigurator_configure(c, cfg) ==
    [appenders |-> <<Configs[cfg].appender>>,
     level |-> Configs[cfg].level,
     named |-> c.named \cup Configs[cfg].named]

NoConfCall == [op |-> "none", arg |-> "none", env |-> FALSE]

\* part_000 globalInit(): true when the basic configuration is still to be done
globalInit(env) == ~env

\* what has been established when main() starts: the number of establishing
\* actions run with the globals
StaticInitEstablished(rev, env) ==
    CASE rev = "part_000" -> IF env THEN 1 ELSE 0
      [] rev = "part_005" -> 1
      [] rev = "Log.cc"   -> 0
      [] rev = "part_013" -> 0

\* Log::_defaultLogger() of part_000 entered by a log call: the first thread
\* to come runs the initialiser, a thread that comes while it runs waits, a
\* thread that comes later goes on.  The other revisions have nothing to run.
defaultLogger_enter(t) ==
    /\ ipc[t] = "idle"
    /\ initLogged[t] < MaxInitLogs
    /\ initLogged' = [initLogged EXCEPT ![t] = @ + 1]
    /\ IF initRev = "part_000" /\ defaultGuard = "uninit"
       THEN /\ defaultGuard' = "busy"
            /\ ipc' = [ipc EXCEPT ![t] = "init"]
       ELSE IF initRev = "part_000" /\ defaultGuard = "busy"
       THEN /\ defaultGuard' = defaultGuard
            /\ ipc' = [ipc EXCEPT ![t] = "wait"]
       ELSE /\ defaultGuard' = defaultGuard
            /\ ipc' = [ipc EXCEPT ![t] = "fwd"]
    /\ UNCHANGED <<initRev, envReadable, log4cxxConfiguration, doBasicConfig,
                   establishCount, basicConfigured, fwdCount,
                   establishAtFirstFwd, conf, confCall>>
    /\ UNCHANGED notInit

\* a thread waiting for the initialiser goes on when it has completed
defaultLogger_wait(t) ==
    /\ ipc[t] = "wait"
    /\ defaultGuard = "done"
    /\ ipc' = [ipc EXCEPT ![t] = "fwd"]
    /\ UNCHANGED <<initRev, envReadable, log4cxxConfiguration, doBasicConfig,
                   defaultGuard, initLogged, establishCount, basicConfigured,
                   fwdCount, establishAtFirstFwd, conf, confCall>>
    /\ UNCHANGED notInit

\* part_000 log4cxxInit(), run as the initialiser of the static
log4cxxInit(t) ==
    /\ ipc[t] = "init"
    /\ IF doBasicConfig
       THEN /\ doBasicConfig' = FALSE
            /\ basicConfigured' = TRUE
            /\ conf' = BasicConfigurator_configure(conf)
            /\ establishCount' = establishCount + 1
       ELSE UNCHANGED <<doBasicConfig, basicConfigured, conf, establishCount>>
    /\ defaultGuard' = "done"
    /\ ipc' = [ipc EXCEPT ![t] = "fwd"]
    /\ UNCHANGED <<initRev, envReadable, log4cxxConfiguration, initLogged,
                   fwdCount, establishAtFirstFwd, confCall>>
    /\ UNCHANGED notInit

\* the log call hands its message to the backend (forcedLog)
forcedLog(t) ==
    /\ ipc[t] = "fwd"
    /\ fwdCount' = fwdCount + 1
    /\ establishAtFirstFwd' =
           IF fwdCount = 0 THEN establishCount ELSE establishAtFirstFwd
    /\ ipc' = [ipc EXCEPT ![t] = "idle"]
    /\ conf' = IF log4cxxConfiguration /\ fwdCount = 0
               THEN PropertyConfigurator_configure(conf, EnvConfig)
               ELSE conf
    /\ UNCHANGED <<initRev, envReadable, log4cxxConfiguration, doBasicConfig,
                   defaultGuard, initLogged, establishCount, basicConfigured,
                   confCall>>
    /\ UNCHANGED notInit

\* the state when main() starts, for a revision and an environment
StaticInit ==
    /\ envReadable \in BOOLEAN
    /\ log4cxxConfiguration =
           (initRev \in {"part_000", "part_005"} /\ envReadable)
    /\ doBasicConfig = (initRev = "part_000" /\ globalInit(envReadable))
    /\ basicConfigured = (initRev = "part_005" /\ ~envReadable)
    /\ establishCount = StaticInitEstablished(initRev, envReadable)
    /\ defaultGuard = "uninit"
    /\ ipc = [t \in Threads |-> "idle"]
    /\ initLogged = [t \in Threads |-> 0]
    /\ fwdCount = 0
    /\ establishAtFirstFwd = 0
    /\ conf = IF basicConfigured
              THEN BasicConfigurator_configure(resetConfiguration)
              ELSE resetConfiguration
    /\ confCall = NoConfCall

\* the state when main() starts, for each revision and each environment
LazyInit ==
    /\ initRev \in InitRevs
    /\ StaticInit

\* the initialisation model at rest, as the other models see it
LazyQuiet ==
    /\ LazyInit
    /\ initRev = "part_000"
    /\ envReadable = FALSE

LazyNext ==
    \/ \E t \in Threads : defaultLogger_enter(t)
    \/ \E t \in Threads : defaultLogger_wait(t)
    \/ \E t \in Threads : log4cxxInit(t)
    \/ \E t \in Threads : forcedLog(t)

(***************************************************************************)
(* The configure calls.  Four revisions differ:                            *)
(*   part_000   configure() resets, then reads the file LSST_LOG_CONFIG    *)
(*              names or falls back to BasicConfigurator; configure_prop   *)
(*              does not reset;                                            *)
(*   part_005   as part_000, with initLog() setting the default logger;    *)
(*   Log.cc     as part_005;                                               *)
(*   part_013   configure() neither resets nor looks at the environment,   *)
(*              there is no configure_prop, and initLog() clears the       *)
(*              context stack but not the default logger name.             *)
(***************************************************************************)
ConfRevs == {"part_000", "part_005", "Log.cc", "part_013"}

\* the names pushed as contexts between configure calls
ConfPushNames == {Str_a}

\* Log::initLog() and the assignments to the default logger that end the
\* configure calls: the default logger is the root logger again; part_013
\* empties its context stack and leaves defaultLoggerName as it is
initLog(op) ==
    /\ defaultLogger' = getRootLogger
    /\ context' = << >>
    /\ frames' = << >>
    /\ ctxCall' = [op |-> op, name |-> Str_empty, result |-> "ok"]
    /\ UNCHANGED <<ctxRev, loggers, defaultLoggerName, crashed>>

\* what a configure call does besides the configuration: doBasicConfig is
\* cleared (part_000), and the static in _defaultLogger() is initialised by
\* the assignment that ends the call
configureFrame(op, arg) ==
    /\ doBasicConfig' = FALSE
    /\ defaultGuard' = IF initRev = "part_000" THEN "done" ELSE defaultGuard
    /\ confCall' = [op |-> op, arg |-> arg, env |-> envReadable]
    /\ initLog(op)
    /\ UNCHANGED <<initRev, envReadable, log4cxxConfiguration, ipc, initLogged,
                   establishCount, basicConfigured, fwdCount,
                   establishAtFirstFwd>>
    /\ UNCHANGED <<scopeVars, mdcVars, cacheVars, pyVars, useVars, cbVars,
                   lockVars>>

\* Log::configure() of part_000, part_005 and Log.cc
configure_reset(c, env) ==
    IF env THEN PropertyConfigurator_configure(resetConfiguration, EnvConfig)
    ELSE BasicConfigurator_configure(resetConfiguration)

\* Log::configure() of part_013
configure_part_013(c, env) ==
    IF Len(c.appenders) = 0 THEN BasicConfigurator_configure(c) ELSE c

\* Log::configure()
configure ==
    /\ ~crashed
    /\ conf' = IF initRev = "part_013"
               THEN configure_part_013(conf, envReadable)
               ELSE configure_reset(conf, envReadable)
    /\ configureFrame("configure", "none")

\* Log::configure(filename)
configure_file(filename) ==
    /\ ~crashed
    /\ conf' = PropertyConfigurator_configure(resetConfiguration, filename)
    /\ configureFrame("configure_file", filename)

\* Log::configure_prop(properties): part_013 does not have it
configure_prop(properties) ==
    /\ ~crashed
    /\ initRev # "part_013"
    /\ conf' = PropertyConfigurator_configure(conf, properties)
    /\ configureFrame("configure_prop", properties)

ConfInit ==
    /\ initRev \in ConfRevs
    /\ StaticInit

ConfNext ==
    \/ configure
    \/ \E filename \in ConfigNames : configure_file(filename)
    \/ \E properties \in ConfigNames : configure_prop(properties)
    \/ \E name \in ConfPushNames : pushContext(name)

(***************************************************************************)
(* The logger cache of PyLogAppender::append.  Three revisions differ:     *)
(*   part_003          a cache hit gives the entry a new age;              *)
(*   PyLogAppender.cc  src/src/PyLogAppender.cc, a hit leaves the age;     *)
(*   part_014          as PyLogAppender.cc, and the ages are handed out    *)
(*                     afresh when the age counter wraps to 0.             *)
(* The cache is a std::map, so it is walked in the order of the names.     *)
(* The sizes are scaled: the cache holds g_max_lru_cache_size entries      *)
(* (32 in the source) and the uint32_t age counter counts modulo           *)
(* AgeModulus (2^32 in the source).  The two sections that hold the cache  *)
(* mutex are one step each; the GIL is held from GilGuard to the return.   *)
(***************************************************************************)
g_max_lru_cache_size == 2
AgeModulus == 4

AppRevs == {"part_003", "PyLogAppender.cc", "part_014"}
AppThreads == {"main", "t1"}
LoggerNames == {"n1", "n2", "n3"}
NoName == "none"

\* position of a name in the order of the map
NameRank(n) == CASE n = "n1" -> 1 [] n = "n2" -> 2 [] n = "n3" -> 3

\* m_lru_age ++ on a uint32_t
NextAge(a) == (a + 1) % AgeModulus

\* m_cache.emplace(name, {logger, age}): no effect when the name is present
emplace(c, name, age) ==
    IF name \in DOMAIN c THEN c
    ELSE [n \in DOMAIN c \cup {name} |-> IF n = name THEN age ELSE c[n]]

erase(c, name) == [n \in DOMAIN c \ {name} |-> c[n]]

\* std::min_element by age: the first of the smallest, in the order of the map
min_element(c) ==
    CHOOSE n \in DOMAIN c :
        \A m \in DOMAIN c :
            c[n] < c[m] \/ (c[n] = c[m] /\ NameRank(n) <= NameRank(m))

\* a loop that removes nothing
EvictLoop_none(c) == c

\* while (m_cache.size() > g_max_lru_cache_size) erase(min_element)
RECURSIVE EvictLoop(_)
EvictLoop(c) ==
    IF Cardinality(DOMAIN c) > g_max_lru_cache_size
    THEN EvictLoop(erase(c, min_element(c)))
    ELSE c

\* part_014: for (auto& cache_value: _cache) cache_value.second.age = _lru_age ++
\* starting from _lru_age = 0
ResetAges(c) ==
    [n \in DOMAIN c |->
        Cardinality({m \in DOMAIN c : NameRank(m) < NameRank(n)}) % AgeModulus]

\* history: the order of last touch after a touch of name
Touch(seq, name) == Append(SelectSeq(seq, LAMBDA n : n # name), name)

Untouch(seq, keep) == SelectSeq(seq, LAMBDA n : n \in keep)

NoStore ==
    [op |-> "none", name |-> NoName, inserted |-> FALSE, evicted |-> {},
     lru |-> NoName, overflowed |-> FALSE]

\* append, first section under the cache mutex: look the name up; part_003
\* gives the entry a new age on a hit
append_find(t, name) ==
    /\ apc[t] = "idle"
    /\ logger_name' = [logger_name EXCEPT ![t] = name]
    /\ logger' = [logger EXCEPT ![t] = name \in DOMAIN m_cache]
    /\ IF name \in DOMAIN m_cache /\ appRev = "part_003"
       THEN /\ m_cache' = [m_cache EXCEPT ![name] = m_lru_age]
            /\ m_lru_age' = NextAge(m_lru_age)
            /\ overflowed' = (overflowed \/ NextAge(m_lru_age) = 0)
       ELSE UNCHANGED <<m_cache, m_lru_age, overflowed>>
    /\ touched' = IF name \in DOMAIN m_cache THEN Touch(touched, name)
                  ELSE touched
    /\ apc' = [apc EXCEPT ![t] = "gil"]
    /\ UNCHANGED <<appRev, gil, appCall>>
    /\ UNCHANGED notCache

\* append: GilGuard gil_guard
append_gil(t) ==
    /\ apc[t] = "gil"
    /\ gil = NoThread
    /\ gil' = t
    /\ apc' = [apc EXCEPT ![t] = "store"]
    /\ UNCHANGED <<appRev, m_cache, m_lru_age, logger_name, logger, touched,
                   overflowed, appCall>>
    /\ UNCHANGED notCache

\* append: get the logger from Python when the cache had none (found tells
\* whether Python returned one); without a logger reraise, which leaves append;
\* with one, the second section under the cache mutex: emplace, the eviction
\* loop and, in part_014, the reset of the ages when the counter is back at 0
append_store(t, found) ==
    /\ apc[t] = "store"
    /\ IF ~(logger[t] \/ found)
       THEN /\ gil' = NoThread
            /\ apc' = [apc EXCEPT ![t] = "idle"]
            /\ appCall' = [NoStore EXCEPT !.op = "error",
                                          !.name = logger_name[t]]
            /\ UNCHANGED <<m_cache, m_lru_age, logger, touched, overflowed>>
       ELSE LET name == logger_name[t]
                isNew == name \notin DOMAIN m_cache
                c1 == emplace(m_cache, name, m_lru_age)
                a1 == NextAge(m_lru_age)
                c2 == EvictLoop(c1)
                reset == appRev = "part_014" /\ a1 = 0
            IN  /\ m_cache' = IF reset THEN ResetAges(c2) ELSE c2
                /\ m_lru_age' = IF reset
                                THEN Cardinality(DOMAIN c2) % AgeModulus
                                ELSE a1
                /\ overflowed' = (overflowed \/ a1 = 0)
                /\ touched' = Untouch(IF isNew THEN Append(touched, name)
                                      ELSE touched, DOMAIN c2)
                /\ appCall' = [op |-> "store", name |-> name,
                               inserted |-> isNew,
                               evicted |-> DOMAIN c1 \ DOMAIN c2,
                               lru |-> IF touched = << >> THEN NoName
                                       ELSE Head(touched),
                               overflowed |-> overflowed]
                /\ logger' = [logger EXCEPT ![t] = TRUE]
                /\ apc' = [apc EXCEPT ![t] = "emit"]
                /\ gil' = gil
    /\ UNCHANGED <<appRev, logger_name>>
    /\ UNCHANGED notCache

\* append: the rest, under the GIL (isEnabledFor and the Python record), and
\* the return, which releases the GIL
append_emit(t) ==
    /\ apc[t] = "emit"
    /\ gil' = NoThread
    /\ logger' = [logger EXCEPT ![t] = FALSE]
    /\ apc' = [apc EXCEPT ![t] = "idle"]
    /\ UNCHANGED <<appRev, m_cache, m_lru_age, logger_name, touched,
                   overflowed, appCall>>
    /\ UNCHANGED notCache

CacheInit ==
    /\ appRev \in AppRevs
    /\ m_cache = [n \in {} |-> 0]
    /\ m_lru_age = 0
    /\ gil = NoThread
    /\ apc = [t \in AppThreads |-> "idle"]
    /\ logger_name = [t \in AppThreads |-> NoName]
    /\ logger = [t \in AppThreads |-> FALSE]
    /\ touched = << >>
    /\ overflowed = FALSE
    /\ appCall = NoStore

\* the cache model at rest, as the other models see it
CacheQuiet ==
    /\ CacheInit
    /\ appRev = "part_014"

CacheNext ==
    \/ \E t \in AppThreads, name \in LoggerNames : append_find(t, name)
    \/ \E t \in AppThreads : append_gil(t)
    \/ \E t \in AppThreads, found \in BOOLEAN : append_store(t, found)
    \/ \E t \in AppThreads : append_emit(t)

(***************************************************************************)
(* PyLogAppender::append, from the cache lookup to the return: the calls   *)
(* into Python, the GIL, and the references to Python objects.  Two        *)
(* revisions differ:                                                       *)
(*   PyLogAppender.cc  src/src/PyLogAppender.cc: the record is built when  *)
(*                     PyObject_IsTrue gives 1; MDC keys become attributes *)
(*                     of the record unless g_LogRecordAttributes has them;*)
(*   part_014          the record is built unless PyObject_IsTrue gives 0; *)
(*                     MDC keys become items of the dictionary record.MDC. *)
(* One logger name is used, so the cache is a flag; the 21 names of        *)
(* g_LogRecordAttributes are scaled to one.  Locals are destroyed in the   *)
(* reverse order of their declarations: py_is_enabled, record, mdc and res *)
(* before gil_guard, logger (declared before gil_guard) after it.          *)
(***************************************************************************)
\* most append calls begun in the forwarding model
MaxAppends == 2

PyRevs == {"PyLogAppender.cc", "part_014"}

\* the MDC keys an event can carry
MdcKeys == {"name", "x"}

\* names of LogRecord attributes that are not to be overridden from the MDC
g_LogRecordAttributes == {"name"}

\* an MDC key that is never taken for a LogRecord attribute
IsRecordAttribute_never(key) == FALSE

\* g_LogRecordAttributes.count(key) > 0
IsRecordAttribute(key) == key \in g_LogRecordAttributes

\* what logger.isEnabledFor(level) gives: True, False, an exception, or an
\* object whose truth value cannot be taken
Answers == {"true", "false", "raises", "badtruth"}

NoEvent == [answer |-> "false", layout |-> FALSE, keys |-> {}]

\* PyObject_IsTrue: 1, 0, or -1 on failure
PyObject_IsTrue(answer) ==
    CASE answer = "true" -> 1
      [] answer = "false" -> 0
      [] answer = "badtruth" -> -1

\* a test of the enabled-check that lets every event through
is_enabled_always(rev, truth) == TRUE

\* the test on the result of PyObject_IsTrue that lets the event through
is_enabled(rev, truth) ==
    IF rev = "PyLogAppender.cc" THEN truth = 1 ELSE truth # 0

\* the LogRecord that logger.makeRecord returns, and no record
NativeRecord ==
    [k \in MdcKeys |-> IF k \in g_LogRecordAttributes THEN "native" ELSE "absent"]

NoRecordYet == [k \in MdcKeys |-> "absent"]

NoFailure == [call |-> "none", key |-> "none"]

\* the first key of a set of keys, in the order of the key set
FirstKey(keys) == CHOOSE k \in keys : \A m \in keys : (k = "name" \/ m # "name")

\* history: an access of thread t to a Python object; it is kept when the
\* thread does not hold the GIL
Access(t, what) ==
    IF pyGil = t THEN pyUnguarded ELSE pyUnguarded \cup {what}

\* history: the first failure of a call into Python
Failure(t, call, key) ==
    IF pyFailed[t].call = "none"
    THEN [pyFailed EXCEPT ![t] = [call |-> call, key |-> key]]
    ELSE pyFailed

\* reraise(message): throw std::runtime_error; the locals that follow
\* gil_guard are destroyed next
reraise(t) ==
    /\ pyResult' = [pyResult EXCEPT ![t] = "runtime_error"]
    /\ ppc' = [ppc EXCEPT ![t] = "unwind"]

\* append, entry: the section under the cache mutex; on a hit the cached
\* PyObjectPtr is copied into logger (Py_XINCREF)
append_lookup(t) ==
    /\ ppc[t] = "idle"
    /\ pyAppends < MaxAppends
    /\ pyAppends' = pyAppends + 1
    /\ pyEvent' = [pyEvent EXCEPT ![t] = NoEvent]
    /\ pyLogger' = [pyLogger EXCEPT ![t] = pyCached]
    /\ pyUnguarded' = IF pyCached THEN Access(t, "copy") ELSE pyUnguarded
    /\ pyCalls' = [pyCalls EXCEPT ![t] = <<"find">>]
    /\ pyFailed' = [pyFailed EXCEPT ![t] = NoFailure]
    /\ pyResult' = [pyResult EXCEPT ![t] = "none"]
    /\ pyRecord' = [pyRecord EXCEPT ![t] = NoRecordYet]
    /\ pyMdcDict' = [pyMdcDict EXCEPT ![t] = {}]
    /\ pyKeysLeft' = [pyKeysLeft EXCEPT ![t] = {}]
    /\ ppc' = [ppc EXCEPT ![t] = "gil"]
    /\ UNCHANGED <<pyRev, pyGil, pyCached>>
    /\ UNCHANGED notPy

\* append: GilGuard gil_guard (PyGILState_Ensure)
GilGuard_ctor(t) ==
    /\ ppc[t] = "gil"
    /\ pyGil = NoThread
    /\ pyGil' = t
    /\ ppc' = [ppc EXCEPT ![t] = "resolve"]
    /\ UNCHANGED <<pyRev, pyCached, pyEvent, pyLogger, pyKeysLeft, pyRecord,
                   pyMdcDict, pyResult, pyAppends, pyCalls, pyFailed,
                   pyUnguarded>>
    /\ UNCHANGED notPy

\* append: without a logger from the cache call logging.getLogger (ok tells
\* whether it returns one); without a logger reraise, with one remember it
\* in the cache
append_resolve(t, ok) ==
    /\ ppc[t] = "resolve"
    /\ IF ~pyLogger[t] /\ ~ok
       THEN /\ pyCalls' = [pyCalls EXCEPT ![t] = Append(@, "getLogger")]
            /\ pyFailed' = Failure(t, "getLogger", "none")
            /\ pyUnguarded' = Access(t, "getLogger")
            /\ reraise(t)
            /\ UNCHANGED <<pyLogger, pyCached>>
       ELSE /\ pyCalls' = [pyCalls EXCEPT ![t] =
                  IF pyLogger[t] THEN Append(@, "emplace")
                  ELSE Append(Append(@, "getLogger"), "emplace")]
            /\ pyLogger' = [pyLogger EXCEPT ![t] = TRUE]
            /\ pyCached' = TRUE
            /\ pyUnguarded' = Access(t, "emplace")
            /\ ppc' = [ppc EXCEPT ![t] = "enabled"]
            /\ UNCHANGED <<pyFailed, pyResult>>
    /\ UNCHANGED <<pyRev, pyGil, pyEvent, pyKeysLeft, pyRecord, pyMdcDict,
                   pyAppends>>
    /\ UNCHANGED notPy

\* append: logger.isEnabledFor(pyLevel), which gives answer, and
\* PyObject_IsTrue of what it gives
append_isEnabledFor(t, answer) ==
    /\ ppc[t] = "enabled"
    /\ pyEvent' = [pyEvent EXCEPT ![t].answer = answer]
    /\ pyCalls' = [pyCalls EXCEPT ![t] = Append(@, "isEnabledFor")]
    /\ pyUnguarded' = Access(t, "isEnabledFor")
    /\ IF answer = "raises"
       THEN /\ pyFailed' = Failure(t, "isEnabledFor", "none")
            /\ reraise(t)
       ELSE /\ pyFailed' = IF PyObject_IsTrue(answer) = -1
                           THEN Failure(t, "PyObject_IsTrue", "none")
                           ELSE pyFailed
            /\ IF is_enabled(pyRev, PyObject_IsTrue(answer))
               THEN /\ ppc' = [ppc EXCEPT ![t] = "record"]
                    /\ pyResult' = pyResult
               ELSE /\ ppc' = [ppc EXCEPT ![t] = "unwind"]
                    /\ pyResult' = [pyResult EXCEPT ![t] = "ok"]
    /\ UNCHANGED <<pyRev, pyGil, pyCached, pyLogger, pyKeysLeft, pyRecord,
                   pyMdcDict, pyAppends>>
    /\ UNCHANGED notPy

\* append: the message, formatted by the layout when there is one, and
\* logger.makeRecord (ok tells whether it returns a record); keys are the
\* MDC keys of the event
append_makeRecord(t, layout, keys, ok) ==
    /\ ppc[t] = "record"
    /\ pyEvent' = [pyEvent EXCEPT ![t].layout = layout, ![t].keys = keys]
    /\ pyCalls' = [pyCalls EXCEPT ![t] =
          Append(Append(@, IF layout THEN "format" ELSE "getMessage"),
                 "makeRecord")]
    /\ pyUnguarded' = Access(t, "makeRecord")
    /\ IF ok
       THEN /\ pyRecord' = [pyRecord EXCEPT ![t] = NativeRecord]
            /\ pyKeysLeft' = [pyKeysLeft EXCEPT ![t] = keys]
            /\ ppc' = [ppc EXCEPT ![t] =
                  IF pyRev = "part_014" THEN "getmdc" ELSE "mdc"]
            /\ UNCHANGED <<pyFailed, pyResult>>
       ELSE /\ pyFailed' = Failure(t, "makeRecord", "none")
            /\ reraise(t)
            /\ UNCHANGED <<pyRecord, pyKeysLeft>>
    /\ UNCHANGED <<pyRev, pyGil, pyCached, pyLogger, pyMdcDict, pyAppends>>
    /\ UNCHANGED notPy

\* part_014: getattr(record, "MDC"); when the record has none (has is false)
\* the error is cleared and an MDCDict is made and set (ok tells whether
\* that works)
append_getMDC(t, has, ok) ==
    /\ ppc[t] = "getmdc"
    /\ pyCalls' = [pyCalls EXCEPT ![t] = Append(@, "getMDC")]
    /\ pyUnguarded' = Access(t, "getMDC")
    /\ IF has \/ ok
       THEN /\ ppc' = [ppc EXCEPT ![t] = "mdc"]
            /\ UNCHANGED <<pyFailed, pyResult>>
       ELSE /\ pyFailed' = Failure(t, "MDCDict", "none")
            /\ reraise(t)
    /\ UNCHANGED <<pyRev, pyGil, pyCached, pyEvent, pyLogger, pyKeysLeft,
                   pyRecord, pyMdcDict, pyAppends>>
    /\ UNCHANGED notPy

\* append: one turn of the loop over event->getMDCKeySet(), or its end
append_mdc(t, ok) ==
    /\ ppc[t] = "mdc"
    /\ IF pyKeysLeft[t] = {}
       THEN /\ ppc' = [ppc EXCEPT ![t] = "handle"]
            /\ UNCHANGED <<pyKeysLeft, pyRecord, pyMdcDict, pyCalls, pyFailed,
                           pyResult, pyUnguarded>>
       ELSE LET key == FirstKey(pyKeysLeft[t]) IN
            /\ pyKeysLeft' = [pyKeysLeft EXCEPT ![t] = @ \ {key}]
            /\ IF pyRev = "PyLogAppender.cc" /\ IsRecordAttribute(key)
               THEN UNCHANGED <<ppc, pyRecord, pyMdcDict, pyCalls, pyFailed,
                                pyResult, pyUnguarded>>
               ELSE /\ pyCalls' = [pyCalls EXCEPT ![t] = Append(@, "setMDC")]
                    /\ pyUnguarded' = Access(t, "setMDC")
                    /\ IF ok
                       THEN /\ IF pyRev = "PyLogAppender.cc"
                               THEN /\ pyRecord' = [pyRecord EXCEPT ![t][key] = "mdc"]
                                    /\ pyMdcDict' = pyMdcDict
                               ELSE /\ pyMdcDict' = [pyMdcDict EXCEPT ![t] = @ \cup {key}]
                                    /\ pyRecord' = pyRecord
                            /\ UNCHANGED <<ppc, pyFailed, pyResult>>
                       ELSE /\ pyFailed' = Failure(t, "setMDC", key)
                            /\ reraise(t)
                            /\ UNCHANGED <<pyRecord, pyMdcDict>>
    /\ UNCHANGED <<pyRev, pyGil, pyCached, pyEvent, pyLogger, pyAppends>>
    /\ UNCHANGED notPy

\* append: logger.handle(record)
append_handle(t, ok) ==
    /\ ppc[t] = "handle"
    /\ pyCalls' = [pyCalls EXCEPT ![t] = Append(@, "handle")]
    /\ pyUnguarded' = Access(t, "handle")
    /\ IF ok
       THEN /\ pyResult' = [pyResult EXCEPT ![t] = "ok"]
            /\ ppc' = [ppc EXCEPT ![t] = "unwind"]
            /\ pyFailed' = pyFailed
       ELSE /\ pyFailed' = Failure(t, "handle", "none")
            /\ reraise(t)
    /\ UNCHANGED <<pyRev, pyGil, pyCached, pyEvent, pyLogger, pyKeysLeft,
                   pyRecord, pyMdcDict, pyAppends>>
    /\ UNCHANGED notPy

\* the end of append, by return or by exception: res, mdc, record and
\* py_is_enabled are destroyed, then gil_guard (PyGILState_Release); the
\* histories of the call end here
GilGuard_dtor(t) ==
    /\ ppc[t] = "unwind"
    /\ pyUnguarded' = Access(t, "locals")
    /\ pyGil' = NoThread
    /\ ppc' = [ppc EXCEPT ![t] = "dtor"]
    /\ pyEvent' = [pyEvent EXCEPT ![t] = NoEvent]
    /\ pyKeysLeft' = [pyKeysLeft EXCEPT ![t] = {}]
    /\ pyRecord' = [pyRecord EXCEPT ![t] = NoRecordYet]
    /\ pyMdcDict' = [pyMdcDict EXCEPT ![t] = {}]
    /\ pyCalls' = [pyCalls EXCEPT ![t] = << >>]
    /\ pyFailed' = [pyFailed EXCEPT ![t] = NoFailure]
    /\ UNCHANGED <<pyRev, pyCached, pyLogger, pyResult, pyAppends>>
    /\ UNCHANGED notPy

\* the end of append: ~PyObjectPtr() of logger (Py_CLEAR), and the caller
\* gets the result
PyObjectPtr_dtor(t) ==
    /\ ppc[t] = "dtor"
    /\ pyUnguarded' = IF pyLogger[t] THEN Access(t, "release") ELSE pyUnguarded
    /\ pyLogger' = [pyLogger EXCEPT ![t] = FALSE]
    /\ ppc' = [ppc EXCEPT ![t] = "idle"]
    /\ UNCHANGED <<pyRev, pyGil, pyCached, pyEvent, pyKeysLeft, pyRecord,
                   pyMdcDict, pyResult, pyAppends, pyCalls, pyFailed>>
    /\ UNCHANGED notPy

PyInit ==
    /\ pyRev \in PyRevs
    /\ pyGil = NoThread
    /\ ppc = [t \in AppThreads |-> "idle"]
    /\ pyCached = FALSE
    /\ pyEvent = [t \in AppThreads |-> NoEvent]
    /\ pyLogger = [t \in AppThreads |-> FALSE]
    /\ pyKeysLeft = [t \in AppThreads |-> {}]
    /\ pyRecord = [t \in AppThreads |-> NoRecordYet]
    /\ pyMdcDict = [t \in AppThreads |-> {}]
    /\ pyResult = [t \in AppThreads |-> "none"]
    /\ pyAppends = 0
    /\ pyCalls = [t \in AppThreads |-> << >>]
    /\ pyFailed = [t \in AppThreads |-> NoFailure]
    /\ pyUnguarded = {}

\* the forwarding model at rest, as the other models see it
PyQuiet ==
    /\ PyInit
    /\ pyRev = "part_014"

PyNext ==
    \/ \E t \in AppThreads : append_lookup(t)
    \/ \E t \in AppThreads : GilGuard_ctor(t)
    \/ \E t \in AppThreads, ok \in BOOLEAN : append_resolve(t, ok)
    \/ \E t \in AppThreads, answer \in Answers : append_isEnabledFor(t, answer)
    \/ \E t \in AppThreads, layout \in BOOLEAN, keys \in SUBSET MdcKeys, ok \in BOOLEAN :
          append_makeRecord(t, layout, keys, ok)
    \/ \E t \in AppThreads, has \in BOOLEAN, ok \in BOOLEAN : append_getMDC(t, has, ok)
    \/ \E t \in AppThreads, ok \in BOOLEAN : append_mdc(t, ok)
    \/ \E t \in AppThreads, ok \in BOOLEAN : append_handle(t, ok)
    \/ \E t \in AppThreads : GilGuard_dtor(t)
    \/ \E t \in AppThreads : PyObjectPtr_dtor(t)

(***************************************************************************)
(* The interface as a client uses it: Log::setLevel, Log::isEnabledFor,    *)
(* the macro LOGS, Log::logMsg called directly (the Python binding does    *)
(* so), Log::MDC, Log::MDCRemove and Log::getLogger, src/unnamed/part_000  *)
(* and src/src/Log.cc.  The threads are those of the registry model, and   *)
(* a log call leaves the registry model's variables as Log::logMsg does.   *)
(***************************************************************************)
\* most calls the client makes in all
MaxUseOps == 3

\* the levels of the messages the client logs and the levels it sets
UseLevels == {"DEBUG", "INFO"}
UseThresholds == {"INFO"}

\* the threads of the client
UseThreads == {"main", "t1"}

\* the names the client asks getLogger for
UseNames == {Str_empty, Str_a}

NoCall == [pending |-> FALSE, entry |-> "none", level |-> "none", n |-> 0,
           threshold |-> "none"]
NoOp == [op |-> "none", thread |-> NoThread, key |-> "none"]

\* what a client call leaves alone besides the variables it names
UseCount(t, op, key) ==
    /\ pc[t] = "idle"
    /\ useOps < MaxUseOps
    /\ useOps' = useOps + 1
    /\ lastOp' = [op |-> op, thread |-> t, key |-> key]

\* Log::isEnabledFor(level) of the logger the client logs to
Log_isEnabledFor(l) == isEnabledFor(l, level)

\* Log::setLevel(level)
setLevel(t, l) ==
    /\ UseCount(t, "setLevel", "none")
    /\ level' = l
    /\ UNCHANGED <<ucall, issued, delivered, handles, lastGet>>
    /\ UNCHANGED <<ctxVars, mdcVars>>
    /\ UNCHANGED notUse

\* the MDC after the init functions of the registry have run
AfterInitFunctions(m) ==
    [k \in Callbacks |-> IF k \in Range(mdcInitFunctions) THEN MdcValue ELSE m[k]]

\* Log::logMsg up to its last statement: the per-thread initialisation, which
\* runs the registered functions in the thread's first call, under the mutex
logMsg_enter(t, entry, l) ==
    /\ mdcInitMutex = NoThread
    /\ tlsInit' = [tlsInit EXCEPT ![t] = TRUE]
    /\ mdc' = IF tlsInit[t] THEN mdc
              ELSE [mdc EXCEPT ![t] = AfterInitFunctions(@)]
    /\ mdcCounter' = IF tlsInit[t] THEN mdcCounter
                     ELSE [mdcCounter EXCEPT ![t] =
                              [cb \in Callbacks |->
                                  @[cb] + Cardinality({i \in DOMAIN mdcInitFunctions :
                                                          mdcInitFunctions[i] = cb})]]
    /\ initOrder' = IF tlsInit[t] THEN initOrder
                    ELSE [initOrder EXCEPT ![t] = @ \o mdcInitFunctions]
    /\ regAtEntry' = IF forwarded[t] = 0
                     THEN [regAtEntry EXCEPT ![t] = Range(mdcInitFunctions)]
                     ELSE regAtEntry
    /\ pc' = [pc EXCEPT ![t] = "lm_fwd"]
    /\ issued' = [issued EXCEPT ![t] = @ + 1]
    /\ ucall' = [ucall EXCEPT ![t] =
                    [pending |-> TRUE, entry |-> entry, level |-> l,
                     n |-> issued[t] + 1, threshold |-> level]]
    /\ UNCHANGED <<delivered, forwarded, firstRecord>>

\* a LOGS that calls logMsg without asking isEnabledFor
LOGS_guard_none(l) == TRUE

\* the condition of the macro LOGS(logger, level, message)
LOGS_guard(l) == Log_isEnabledFor(l)

\* the macro LOGS(logger, level, message): Log::logMsg is called when the
\* logger is enabled for the level, and nothing is called when it is not
LOGS(t, l) ==
    /\ UseCount(t, "LOGS", "none")
    /\ IF LOGS_guard(l)
       THEN logMsg_enter(t, "LOGS", l)
       ELSE UNCHANGED <<mdcVars, ucall, issued, delivered>>
    /\ UNCHANGED <<level, handles, lastGet>>
    /\ UNCHANGED <<mdcInitFunctions, mdcInitMutex, funArg, funIter, registrar,
                   regLoggedBefore, regAtSpawn, regReturn>>
    /\ UNCHANGED ctxVars
    /\ UNCHANGED notUse

\* Log::logMsg(level, location, msg) called by the client itself, as the
\* binding of logMsg for Python calls it
logMsg(t, l) ==
    /\ UseCount(t, "logMsg", "none")
    /\ logMsg_enter(t, "logMsg", l)
    /\ UNCHANGED <<level, handles, lastGet>>
    /\ UNCHANGED <<mdcInitFunctions, mdcInitMutex, funArg, funIter, registrar,
                   regLoggedBefore, regAtSpawn, regReturn>>
    /\ UNCHANGED ctxVars
    /\ UNCHANGED notUse

\* a forcedLog that puts the message in front of the messages handed on so far
logMsg_forcedLog_front(t) ==
    /\ pc[t] = "lm_fwd"
    /\ ucall[t].pending
    /\ delivered' = <<[thread |-> t, n |-> ucall[t].n,
                       entry |-> ucall[t].entry, level |-> ucall[t].level,
                       threshold |-> ucall[t].threshold]>> \o delivered
    /\ forwarded' = [forwarded EXCEPT ![t] = @ + 1]
    /\ firstRecord' = IF firstRecord[t].emitted THEN firstRecord
                      ELSE [firstRecord EXCEPT ![t] =
                               [emitted |-> TRUE, mdc |-> mdc[t]]]
    /\ pc' = [pc EXCEPT ![t] = "idle"]
    /\ ucall' = [ucall EXCEPT ![t] = NoCall]
    /\ UNCHANGED <<level, issued, handles, lastGet, lastOp, useOps>>
    /\ UNCHANGED <<mdcInitFunctions, mdcInitMutex, tlsInit, funArg, funIter,
                   mdcCounter, mdc, registrar, regLoggedBefore, regAtEntry,
                   regAtSpawn, regReturn, initOrder>>
    /\ UNCHANGED ctxVars
    /\ UNCHANGED notUse

\* Log::logMsg, last statement: _logger->forcedLog(level, msg, location)
logMsg_forcedLog(t) ==
    /\ pc[t] = "lm_fwd"
    /\ ucall[t].pending
    /\ delivered' = Append(delivered,
                           [thread |-> t, n |-> ucall[t].n,
                            entry |-> ucall[t].entry, level |-> ucall[t].level,
                            threshold |-> ucall[t].threshold])
    /\ forwarded' = [forwarded EXCEPT ![t] = @ + 1]
    /\ firstRecord' = IF firstRecord[t].emitted THEN firstRecord
                      ELSE [firstRecord EXCEPT ![t] =
                               [emitted |-> TRUE, mdc |-> mdc[t]]]
    /\ pc' = [pc EXCEPT ![t] = "idle"]
    /\ ucall' = [ucall EXCEPT ![t] = NoCall]
    /\ UNCHANGED <<level, issued, handles, lastGet, lastOp, useOps>>
    /\ UNCHANGED <<mdcInitFunctions, mdcInitMutex, tlsInit, funArg, funIter,
                   mdcCounter, mdc, registrar, regLoggedBefore, regAtEntry,
                   regAtSpawn, regReturn, initOrder>>
    /\ UNCHANGED ctxVars
    /\ UNCHANGED notUse

\* log4cxx::MDC::put(key, value) on the map of the calling thread
MDC_put(m, key, value) == [m EXCEPT ![key] = value]

\* an MDC::remove that empties the map
MDC_remove_all(m, key) == [k \in DOMAIN m |-> MdcUnset]

\* log4cxx::MDC::remove(key) on the map of the calling thread
MDC_remove(m, key) == [m EXCEPT ![key] = MdcUnset]

\* what Log::MDC and Log::MDCRemove leave alone
MDCFrame ==
    /\ UNCHANGED <<level, ucall, issued, delivered, handles, lastGet>>
    /\ UNCHANGED <<mdcInitFunctions, mdcInitMutex, tlsInit, pc, funArg, funIter,
                   mdcCounter, forwarded, firstRecord, registrar,
                   regLoggedBefore, regAtEntry, regAtSpawn, regReturn,
                   initOrder>>
    /\ UNCHANGED ctxVars
    /\ UNCHANGED notUse

\* Log::MDC(key, value)
MDC(t, key, value) ==
    /\ UseCount(t, "MDC", key)
    /\ mdc' = [mdc EXCEPT ![t] = MDC_put(@, key, value)]
    /\ MDCFrame

\* Log::MDCRemove(key)
MDCRemove(t, key) ==
    /\ UseCount(t, "MDCRemove", key)
    /\ mdc' = [mdc EXCEPT ![t] = MDC_remove(@, key)]
    /\ MDCFrame

\* a getLogger that takes the name as relative to the default logger
Log_getLogger_relative(loggername) ==
    IF empty(loggername) THEN defaultLogger
    ELSE getLogger_log4cxx(pushContextNewName(defaultLogger.name, loggername))

\* Log::getLogger(loggername): the default logger for the empty name, else
\* the logger log4cxx keeps under the name
Log_getLogger(loggername) ==
    IF empty(loggername) THEN defaultLogger
    ELSE getLogger_log4cxx(loggername)

\* Log::getLogger(logger)
Log_getLogger_handle(lg) == lg

\* what the getLogger calls leave alone
getLoggerFrame ==
    /\ UNCHANGED <<level, ucall, issued, delivered>>
    /\ UNCHANGED <<ctxRev, defaultLogger, context, defaultLoggerName, ctxCall,
                   crashed, frames>>
    /\ UNCHANGED mdcVars
    /\ UNCHANGED notUse

\* the client calls Log::getLogger(loggername); log4cxx creates the logger of
\* a name it does not know yet
getLogger(t, loggername) ==
    /\ UseCount(t, "getLogger", "none")
    /\ ~crashed
    /\ handles' = handles \cup {[name |-> loggername,
                                 node |-> Log_getLogger(loggername),
                                 again |-> \E h \in handles :
                                               h.name = loggername]}
    /\ loggers' = IF empty(loggername) THEN loggers
                  ELSE loggers \cup {Log_getLogger(loggername).name}
    /\ lastGet' = [byHandle |-> FALSE, arg |-> NoLogger,
                   result |-> Log_getLogger(loggername)]
    /\ getLoggerFrame

\* the client calls Log::getLogger(logger) with a handle it holds
getLogger_handle(t, lg) ==
    /\ UseCount(t, "getLogger_handle", "none")
    /\ ~crashed
    /\ lastGet' = [byHandle |-> TRUE, arg |-> lg,
                   result |-> Log_getLogger_handle(lg)]
    /\ UNCHANGED <<handles, loggers>>
    /\ getLoggerFrame

UseInit ==
    /\ level = "DEBUG"
    /\ ucall = [t \in Threads |-> NoCall]
    /\ issued = [t \in Threads |-> 0]
    /\ delivered = << >>
    /\ handles = {}
    /\ lastGet = [byHandle |-> FALSE, arg |-> NoLogger, result |-> NoLogger]
    /\ lastOp = NoOp
    /\ useOps = 0

\* the client sets levels and logs
UseNext ==
    \/ \E t \in UseThreads : Spawn(t)
    \/ \E t \in UseThreads, l \in UseThresholds : setLevel(t, l)
    \/ \E t \in UseThreads, l \in UseLevels : LOGS(t, l)
    \/ \E t \in UseThreads, l \in UseLevels : logMsg(t, l)
    \/ \E t \in UseThreads : logMsg_forcedLog(t)

\* the client sets and removes MDC entries between log calls and context calls
KeysNext ==
    \/ \E t \in UseThreads : Spawn(t)
    \/ \E t \in UseThreads : LOGS(t, "INFO")
    \/ \E t \in UseThreads : logMsg(t, "INFO")
    \/ \E t \in UseThreads : logMsg_forcedLog(t)
    \/ \E t \in UseThreads, key \in Callbacks : MDC(t, key, MdcValue)
    \/ \E t \in UseThreads, key \in Callbacks : MDCRemove(t, key)
    \/ \E name \in ConfPushNames : pushContext(name)
    \/ popContext

\* the client takes handles between context and configure calls
HandleNext ==
    \/ \E t \in UseThreads, name \in UseNames : getLogger(t, name)
    \/ \E t \in UseThreads, h \in handles : getLogger_handle(t, h.node)
    \/ \E name \in ConfPushNames : pushContext(name)
    \/ popContext
    \/ configure
    \/ \E filename \in ConfigNames : configure_file(filename)
    \/ \E properties \in ConfigNames : configure_prop(properties)

(***************************************************************************)
(* Registered functions that call back into the adapter or into Python.    *)
(* The steps of Log::MDCRegisterInit and Log::logMsg are those of the      *)
(* registry model; here a registered function runs in steps of its own.    *)
(* cbKind names what the registered functions are:                         *)
(*   "logs"    C++ functions that make a log call (LOG_MDC_INIT);          *)
(*   "python"  Python callables behind callable_wrapper, registered        *)
(*             through the binding of MDCRegisterInit, which is called     *)
(*             with the GIL held and does not give it up                   *)
(*             (src/unnamed/part_004).                                     *)
(***************************************************************************)
CbKinds == {"logs", "python"}

\* the threads that register functions and log
CbThreads == {"main", "t1"}

\* the function thread t is running
RunningFunction(t) ==
    IF cbFrom[t] = "ri_call" THEN funArg[t] ELSE mdcInitFunctions[funIter[t]]

\* what a step of a registered function leaves alone in the registry
CbFrame ==
    /\ UNCHANGED <<mdcInitFunctions, funArg, registrar, regLoggedBefore,
                   regAtEntry, regAtSpawn, regReturn>>
    /\ UNCHANGED cbKind
    /\ UNCHANGED notCb

\* the Python interpreter hands the GIL to a thread that is between calls
PyEval_RestoreThread(t) ==
    /\ cbKind = "python"
    /\ pc[t] = "idle"
    /\ cbGil = NoThread
    /\ cbGil' = t
    /\ UNCHANGED <<cbFrom, cbTook>>
    /\ UNCHANGED <<mdcInitMutex, tlsInit, pc, funIter, mdcCounter, mdc, forwarded,
                   firstRecord, initOrder>>
    /\ CbFrame

\* a thread that is between calls gives the GIL up
PyEval_SaveThread(t) ==
    /\ cbKind = "python"
    /\ pc[t] = "idle"
    /\ cbGil = t
    /\ cbGil' = NoThread
    /\ UNCHANGED <<cbFrom, cbTook>>
    /\ UNCHANGED <<mdcInitMutex, tlsInit, pc, funIter, mdcCounter, mdc, forwarded,
                   firstRecord, initOrder>>
    /\ CbFrame

\* the binding of MDCRegisterInit for Python: called by a thread that holds
\* the GIL, it calls Log::MDCRegisterInit with the GIL held
MDCRegisterInit_binding(t, cb) ==
    /\ cbKind = "python"
    /\ cbGil = t
    /\ MDCRegisterInit_begin(t, cb)

\* LOG_MDC_INIT(function) with a C++ function
LOG_MDC_INIT(t, cb) ==
    /\ cbKind = "logs"
    /\ MDCRegisterInit_begin(t, cb)

\* "fun()" in the loop of Log::logMsg and "function()" in MDCRegisterInit:
\* the function is entered
function_enter(t) ==
    /\ \/ pc[t] = "lm_run" /\ funIter[t] <= Len(mdcInitFunctions)
       \/ pc[t] = "ri_call"
    /\ cbFrom' = [cbFrom EXCEPT ![t] = pc[t]]
    /\ pc' = [pc EXCEPT ![t] = IF cbKind = "python" THEN "cb_gil" ELSE "in_begin"]
    /\ UNCHANGED <<cbGil, cbTook>>
    /\ UNCHANGED <<mdcInitMutex, tlsInit, funIter, mdcCounter, mdc, forwarded,
                   firstRecord, initOrder>>
    /\ CbFrame

\* callable_wrapper::operator(): PyGILState_Ensure(), which returns at once
\* in a thread that holds the GIL and waits for the GIL in any other thread
callable_wrapper_ensure(t) ==
    /\ pc[t] = "cb_gil"
    /\ cbGil \in {t, NoThread}
    /\ cbTook' = [cbTook EXCEPT ![t] = (cbGil = NoThread)]
    /\ cbGil' = t
    /\ pc' = [pc EXCEPT ![t] = "cb_body"]
    /\ UNCHANGED cbFrom
    /\ UNCHANGED <<mdcInitMutex, tlsInit, funIter, mdcCounter, mdc, forwarded,
                   firstRecord, initOrder>>
    /\ CbFrame

\* the log call of the function, Log::logMsg, entry: with the thread-specific
\* flag set it goes to forcedLog, else it sets the flag and goes on to lock
nested_logMsg_begin(t) ==
    /\ pc[t] = "in_begin"
    /\ tlsInit' = [tlsInit EXCEPT ![t] = TRUE]
    /\ pc' = [pc EXCEPT ![t] = IF tlsInit[t] THEN "in_fwd" ELSE "in_lock"]
    /\ UNCHANGED <<cbGil, cbFrom, cbTook>>
    /\ UNCHANGED <<mdcInitMutex, funIter, mdcCounter, mdc, forwarded,
                   firstRecord, initOrder>>
    /\ CbFrame

\* the log call of the function: std::lock_guard<std::mutex> lock(mdcInitMutex).
\* Locking a std::mutex the thread owns is undefined: the call blocks for
\* ever or throws std::system_error
nested_logMsg_lock(t, outcome) ==
    /\ pc[t] = "in_lock"
    /\ mdcInitMutex = t
    /\ pc' = [pc EXCEPT ![t] = outcome]
    /\ UNCHANGED <<cbGil, cbFrom, cbTook>>
    /\ UNCHANGED <<mdcInitMutex, tlsInit, funIter, mdcCounter, mdc, forwarded,
                   firstRecord, initOrder>>
    /\ CbFrame

\* the std::system_error leaves the function and MDCRegisterInit, whose
\* lock_guard releases the mutex; the function is not stored
MDCRegisterInit_unwind(t) ==
    /\ pc[t] = "in_threw"
    /\ mdcInitMutex' = NoThread
    /\ pc' = [pc EXCEPT ![t] = "idle"]
    /\ UNCHANGED <<cbGil, cbFrom, cbTook>>
    /\ UNCHANGED <<tlsInit, funIter, mdcCounter, mdc, forwarded, firstRecord,
                   initOrder>>
    /\ CbFrame

\* the log call of the function: _logger->forcedLog(level, msg, location)
nested_logMsg_forward(t) ==
    /\ pc[t] = "in_fwd"
    /\ forwarded' = [forwarded EXCEPT ![t] = @ + 1]
    /\ firstRecord' = IF firstRecord[t].emitted THEN firstRecord
                      ELSE [firstRecord EXCEPT ![t] =
                               [emitted |-> TRUE, mdc |-> mdc[t]]]
    /\ pc' = [pc EXCEPT ![t] = "cb_body"]
    /\ UNCHANGED <<cbGil, cbFrom, cbTook>>
    /\ UNCHANGED <<mdcInitMutex, tlsInit, funIter, mdcCounter, mdc, initOrder>>
    /\ CbFrame

\* the function puts its MDC key and returns; callable_wrapper releases the
\* GIL when it took it (PyGILState_Release)
function_return(t) ==
    /\ pc[t] = "cb_body"
    /\ RunFunction(t, RunningFunction(t))
    /\ cbGil' = IF cbTook[t] THEN NoThread ELSE cbGil
    /\ cbTook' = [cbTook EXCEPT ![t] = FALSE]
    /\ IF cbFrom[t] = "ri_call"
       THEN /\ pc' = [pc EXCEPT ![t] = "ri_push"]
            /\ UNCHANGED <<funIter, initOrder>>
       ELSE /\ pc' = [pc EXCEPT ![t] = "lm_run"]
            /\ funIter' = [funIter EXCEPT ![t] = @ + 1]
            /\ initOrder' = [initOrder EXCEPT ![t] = Append(@, RunningFunction(t))]
    /\ UNCHANGED cbFrom
    /\ UNCHANGED <<mdcInitMutex, tlsInit, forwarded, firstRecord>>
    /\ CbFrame

\* Log::logMsg: the end of the loop over mdcInitFunctions releases the mutex
logMsg_loop_end(t) ==
    /\ pc[t] = "lm_run"
    /\ funIter[t] > Len(mdcInitFunctions)
    /\ mdcInitMutex' = NoThread
    /\ pc' = [pc EXCEPT ![t] = "lm_fwd"]
    /\ UNCHANGED <<cbGil, cbFrom, cbTook>>
    /\ UNCHANGED <<tlsInit, funIter, mdcCounter, mdc, forwarded, firstRecord,
                   initOrder>>
    /\ CbFrame

CbInit ==
    /\ cbKind \in CbKinds
    /\ cbGil = NoThread
    /\ cbFrom = [t \in Threads |-> "none"]
    /\ cbTook = [t \in Threads |-> FALSE]

\* the functions at rest, as the other models see them
CbQuiet ==
    /\ CbInit
    /\ cbKind = "logs"

CbNext ==
    \/ \E t \in CbThreads : Spawn(t)
    \/ \E t \in CbThreads : PyEval_RestoreThread(t)
    \/ \E t \in CbThreads : PyEval_SaveThread(t)
    \/ \E t \in CbThreads, cb \in Callbacks : MDCRegisterInit_binding(t, cb)
    \/ \E t \in CbThreads, cb \in Callbacks : LOG_MDC_INIT(t, cb)
    \/ \E t \in CbThreads : MDCRegisterInit_lock(t)
    \/ \E t \in CbThreads : MDCRegisterInit_push(t)
    \/ \E t \in CbThreads : logMsg_begin(t)
    \/ \E t \in CbThreads : logMsg_lock(t)
    \/ \E t \in CbThreads : logMsg_loop_end(t)
    \/ \E t \in CbThreads : logMsg_forward(t)
    \/ \E t \in CbThreads : function_enter(t)
    \/ \E t \in CbThreads : callable_wrapper_ensure(t)
    \/ \E t \in CbThreads : nested_logMsg_begin(t)
    \/ \E t \in CbThreads, outcome \in {"in_stuck", "in_threw"} :
          nested_logMsg_lock(t, outcome)
    \/ \E t \in CbThreads : MDCRegisterInit_unwind(t)
    \/ \E t \in CbThreads : nested_logMsg_forward(t)
    \/ \E t \in CbThreads : function_return(t)

(***************************************************************************)
(* Configure calls racing with first log calls, for the revisions with a   *)
(* fallback configuration: part_000, where log4cxxInit() applies           *)
(* BasicConfigurator lazily while doBasicConfig is set, and part_005,      *)
(* where init() has applied it with the globals.  log4cxxInit() and the    *)
(* configure calls are taken in two steps each, so that a configure call   *)
(* can come between the test of doBasicConfig and the configuration, and   *)
(* a first log call between the configuration and the assignment to        *)
(* _defaultLogger(), which in part_000 waits for a running initialiser.    *)
(* doBasicConfig is a plain bool: a test that races with the assignment of *)
(* a configure call sees the value before or after it.                     *)
(***************************************************************************)
FallbackRevs == {"part_000", "part_005"}
FallbackThreads == {"main", "t1"}
\* the threads that call configure
ConfigureThreads == {"main"}
ConfigureOps == {"configure", "configure_file", "configure_prop"}

\* a configure call that leaves doBasicConfig as it is
doBasicConfig_keep(flag) == flag

\* ::doBasicConfig = false, the first statement of every configure call
doBasicConfig_clear(flag) == FALSE

\* the configuration after the configuring statements of a configure call
Configured(op, arg) ==
    CASE op = "configure" -> configure_reset(conf, envReadable)
      [] op = "configure_file" ->
             PropertyConfigurator_configure(resetConfiguration, arg)
      [] op = "configure_prop" -> PropertyConfigurator_configure(conf, arg)

\* log4cxxInit(): if (doBasicConfig) doBasicConfig = false
log4cxxInit_test(t) ==
    /\ ipc[t] = "init"
    /\ IF doBasicConfig
       THEN /\ doBasicConfig' = FALSE
            /\ ipc' = [ipc EXCEPT ![t] = "basic"]
            /\ defaultGuard' = defaultGuard
       ELSE /\ doBasicConfig' = doBasicConfig
            /\ ipc' = [ipc EXCEPT ![t] = "fwd"]
            /\ defaultGuard' = "done"
    /\ UNCHANGED <<initRev, envReadable, log4cxxConfiguration, initLogged,
                   establishCount, basicConfigured, fwdCount,
                   establishAtFirstFwd, conf, confCall>>
    /\ UNCHANGED notInit

\* log4cxxInit(): log4cxx::BasicConfigurator::configure() and the return,
\* which completes the initialiser of the static
log4cxxInit_basic(t) ==
    /\ ipc[t] = "basic"
    /\ basicConfigured' = TRUE
    /\ conf' = BasicConfigurator_configure(conf)
    /\ establishCount' = establishCount + 1
    /\ defaultGuard' = "done"
    /\ ipc' = [ipc EXCEPT ![t] = "fwd"]
    /\ UNCHANGED <<initRev, envReadable, log4cxxConfiguration, doBasicConfig,
                   initLogged, fwdCount, establishAtFirstFwd, confCall>>
    /\ UNCHANGED notInit

\* a configure call up to its last statement: doBasicConfig is cleared and
\* the backend configured
configure_begin(t, op, arg) ==
    /\ t \in ConfigureThreads
    /\ ipc[t] = "idle"
    /\ op \in ConfigureOps
    /\ (op = "configure") = (arg = "none")
    /\ doBasicConfig' = doBasicConfig_clear(doBasicConfig)
    /\ conf' = Configured(op, arg)
    /\ confCall' = [op |-> op, arg |-> arg, env |-> envReadable]
    /\ ipc' = [ipc EXCEPT ![t] = "assign"]
    /\ UNCHANGED <<initRev, envReadable, log4cxxConfiguration, defaultGuard,
                   initLogged, establishCount, basicConfigured, fwdCount,
                   establishAtFirstFwd>>
    /\ UNCHANGED notInit

\* the last statement of a configure call, _defaultLogger() = root logger
\* (initLog() in part_005): in part_000 the call of _defaultLogger() waits
\* for an initialiser that runs, and runs log4cxxInit() itself when none
\* has run
configure_assign(t) ==
    /\ ipc[t] = "assign"
    /\ ~(initRev = "part_000" /\ defaultGuard = "busy")
    /\ IF initRev = "part_000" /\ defaultGuard = "uninit" /\ doBasicConfig
       THEN /\ doBasicConfig' = FALSE
            /\ basicConfigured' = TRUE
            /\ conf' = BasicConfigurator_configure(conf)
            /\ establishCount' = establishCount + 1
       ELSE UNCHANGED <<doBasicConfig, basicConfigured, conf, establishCount>>
    /\ defaultGuard' = IF initRev = "part_000" THEN "done" ELSE defaultGuard
    /\ initLog(confCall.op)
    /\ ipc' = [ipc EXCEPT ![t] = "idle"]
    /\ UNCHANGED <<initRev, envReadable, log4cxxConfiguration, initLogged,
                   fwdCount, establishAtFirstFwd, confCall>>
    /\ UNCHANGED <<scopeVars, mdcVars, cacheVars, pyVars, useVars, cbVars,
                   lockVars>>

FallbackInit ==
    /\ initRev \in FallbackRevs
    /\ StaticInit

FallbackNext ==
    \/ \E t \in FallbackThreads : defaultLogger_enter(t)
    \/ \E t \in FallbackThreads : defaultLogger_wait(t)
    \/ \E t \in FallbackThreads : log4cxxInit_test(t)
    \/ \E t \in FallbackThreads : log4cxxInit_basic(t)
    \/ \E t \in FallbackThreads : forcedLog(t)
    \/ \E t \in FallbackThreads : configure_begin(t, "configure", "none")
    \/ \E t \in FallbackThreads, arg \in ConfigNames :
           configure_begin(t, "configure_file", arg)
    \/ \E t \in FallbackThreads, arg \in ConfigNames :
           configure_begin(t, "configure_prop", arg)
    \/ \E t \in FallbackThreads : configure_assign(t)

(***************************************************************************)
(* The two locks of PyLogAppender::append, step by step: the cache mutex   *)
(* m_cache_mutex, held by a std::lock_guard in the block that looks the    *)
(* name up and in the block that stores the logger, and the GIL, held by   *)
(* gil_guard from its declaration to the end of append.  The cache and the *)
(* GIL are the variables of the cache model; the revisions are             *)
(* PyLogAppender.cc and part_014.  A thread of the interpreter calls       *)
(* append while it holds the GIL, any other thread without it.             *)
(***************************************************************************)
\* most append calls begun in the lock model
MaxLockOps == 3

LockRevs == {"PyLogAppender.cc", "part_014"}
LockThreads == {"main", "t1"}
\* the threads that run Python code
InterpreterThreads == {"main"}

\* a destructor that leaves the mutex with its owner
lock_guard_dtor_keeps(owner) == owner

\* ~lock_guard: the owner of the mutex after the end of the block
lock_guard_dtor(owner) == NoThread

\* PyGILState_Ensure: tells whether the thread held the GIL already
PyGILState_Ensure(t) == IF gil = t THEN "LOCKED" ELSE "UNLOCKED"

\* a release that leaves the GIL with the thread
PyGILState_Release_never(t, state) == t

\* PyGILState_Release: the holder of the GIL afterwards
PyGILState_Release(t, state) == IF state = "LOCKED" THEN t ELSE NoThread

LockFrame ==
    /\ UNCHANGED <<appRev, apc, touched, overflowed, appCall>>
    /\ UNCHANGED notLock

\* a thread of the interpreter begins to run Python code
interpreter_take(t) ==
    /\ t \in InterpreterThreads
    /\ lpc[t] = "idle"
    /\ gil = NoThread
    /\ gil' = t
    /\ UNCHANGED <<m_cache, m_lru_age, logger_name, logger>>
    /\ UNCHANGED lockVars
    /\ LockFrame

\* the interpreter switches away from the thread
interpreter_drop(t) ==
    /\ lpc[t] = "idle"
    /\ gil = t
    /\ gil' = NoThread
    /\ UNCHANGED <<m_cache, m_lru_age, logger_name, logger>>
    /\ UNCHANGED lockVars
    /\ LockFrame

\* log4cxx calls append with an event of the logger name
append_call(t, name) ==
    /\ lpc[t] = "idle"
    /\ lkOps < MaxLockOps
    /\ lkOps' = lkOps + 1
    /\ logger_name' = [logger_name EXCEPT ![t] = name]
    /\ logger' = [logger EXCEPT ![t] = FALSE]
    /\ lkExit' = [lkExit EXCEPT ![t] = "none"]
    /\ lpc' = [lpc EXCEPT ![t] = "find_lock"]
    /\ UNCHANGED <<m_cache, m_lru_age, gil, m_cache_mutex, gil_state>>
    /\ LockFrame

\* first block: std::lock_guard<std::mutex> lock(m_cache_mutex)
append_find_lock(t) ==
    /\ lpc[t] = "find_lock"
    /\ m_cache_mutex = NoThread
    /\ m_cache_mutex' = t
    /\ lpc' = [lpc EXCEPT ![t] = "find"]
    /\ UNCHANGED <<m_cache, m_lru_age, gil, logger_name, logger, gil_state,
                   lkExit, lkOps>>
    /\ LockFrame

\* first block: m_cache.find, the copy of the logger, and the end of the block
append_find_unlock(t) ==
    /\ lpc[t] = "find"
    /\ m_cache_mutex = t
    /\ logger' = [logger EXCEPT ![t] = logger_name[t] \in DOMAIN m_cache]
    /\ m_cache_mutex' = lock_guard_dtor(t)
    /\ lpc' = [lpc EXCEPT ![t] = "GilGuard"]
    /\ UNCHANGED <<m_cache, m_lru_age, gil, logger_name, gil_state, lkExit,
                   lkOps>>
    /\ LockFrame

\* GilGuard gil_guard: waits until no other thread holds the GIL
append_GilGuard(t) ==
    /\ lpc[t] = "GilGuard"
    /\ gil \in {t, NoThread}
    /\ gil_state' = [gil_state EXCEPT ![t] = PyGILState_Ensure(t)]
    /\ gil' = t
    /\ lpc' = [lpc EXCEPT ![t] = "getLogger"]
    /\ UNCHANGED <<m_cache, m_lru_age, logger_name, logger, m_cache_mutex,
                   lkExit, lkOps>>
    /\ LockFrame

\* without a logger from the cache call m_getLogger (found tells whether
\* Python returned one); without a logger reraise
append_getLogger(t, found) ==
    /\ lpc[t] = "getLogger"
    /\ logger[t] => found
    /\ logger' = [logger EXCEPT ![t] = found]
    /\ lpc' = [lpc EXCEPT ![t] = IF found THEN "store_lock" ELSE "reraise"]
    /\ UNCHANGED <<m_cache, m_lru_age, gil, logger_name, m_cache_mutex,
                   gil_state, lkExit, lkOps>>
    /\ LockFrame

\* second block: std::lock_guard<std::mutex> lock(m_cache_mutex)
append_store_lock(t) ==
    /\ lpc[t] = "store_lock"
    /\ m_cache_mutex = NoThread
    /\ m_cache_mutex' = t
    /\ lpc' = [lpc EXCEPT ![t] = "store"]
    /\ UNCHANGED <<m_cache, m_lru_age, gil, logger_name, logger, gil_state,
                   lkExit, lkOps>>
    /\ LockFrame

\* second block: emplace, the eviction loop, in part_014 the reset of the
\* ages when the counter is back at 0, and the end of the block
append_store_unlock(t) ==
    /\ lpc[t] = "store"
    /\ m_cache_mutex = t
    /\ LET c1 == emplace(m_cache, logger_name[t], m_lru_age)
           a1 == NextAge(m_lru_age)
           c2 == EvictLoop(c1)
           reset == appRev = "part_014" /\ a1 = 0
       IN  /\ m_cache' = IF reset THEN ResetAges(c2) ELSE c2
           /\ m_lru_age' = IF reset THEN Cardinality(DOMAIN c2) % AgeModulus
                           ELSE a1
    /\ m_cache_mutex' = lock_guard_dtor(t)
    /\ lpc' = [lpc EXCEPT ![t] = "emit"]
    /\ UNCHANGED <<gil, logger_name, logger, gil_state, lkExit, lkOps>>
    /\ LockFrame

\* the rest of append under the GIL: isEnabledFor, the record and handle
\* (ok tells whether every call into Python returned an object); after a
\* call that failed reraise
append_forward(t, ok) ==
    /\ lpc[t] = "emit"
    /\ lpc' = [lpc EXCEPT ![t] = IF ok THEN "return" ELSE "reraise"]
    /\ UNCHANGED <<m_cache, m_lru_age, gil, logger_name, logger,
                   m_cache_mutex, gil_state, lkExit, lkOps>>
    /\ LockFrame

\* the end of append, by return or by the std::runtime_error of reraise:
\* ~GilGuard
append_leave(t) ==
    /\ lpc[t] \in {"return", "reraise"}
    /\ gil' = PyGILState_Release(t, gil_state[t])
    /\ lkExit' = [lkExit EXCEPT ![t] = IF lpc[t] = "reraise" THEN "error"
                                       ELSE "returned"]
    /\ logger' = [logger EXCEPT ![t] = FALSE]
    /\ lpc' = [lpc EXCEPT ![t] = "idle"]
    /\ UNCHANGED <<m_cache, m_lru_age, logger_name, m_cache_mutex, gil_state,
                   lkOps>>
    /\ LockFrame

LockInit ==
    /\ m_cache_mutex = NoThread
    /\ gil_state = [t \in LockThreads |-> "UNLOCKED"]
    /\ lpc = [t \in LockThreads |-> "idle"]
    /\ lkExit = [t \in LockThreads |-> "none"]
    /\ lkOps = 0

\* the lock model at rest, as the other models see it
LockQuiet == LockInit

LockNext ==
    \/ \E t \in LockThreads : interpreter_take(t)
    \/ \E t \in LockThreads : interpreter_drop(t)
    \/ \E t \in LockThreads, name \in LoggerNames : append_call(t, name)
    \/ \E t \in LockThreads : append_find_lock(t)
    \/ \E t \in LockThreads : append_find_unlock(t)
    \/ \E t \in LockThreads : append_GilGuard(t)
    \/ \E t \in LockThreads, found \in BOOLEAN : append_getLogger(t, found)
    \/ \E t \in LockThreads : append_store_lock(t)
    \/ \E t \in LockThreads : append_store_unlock(t)
    \/ \E t \in LockThreads, ok \in BOOLEAN : append_forward(t, ok)
    \/ \E t \in LockThreads : append_leave(t)

(***************************************************************************)
(* Properties of the default-logger context, checked under SpecCtx.        *)
(***************************************************************************)
\* the dot-join of a sequence of names
RECURSIVE Join(_)
Join(names) ==
    IF Len(names) = 0 THEN Str_empty
    ELSE IF Len(names) = 1 THEN names[1]
    ELSE names[1] \o Str_dot \o Join(Tail(names))

PushedSegments == [i \in 1..Len(frames) |-> frames[i].name]

\* C4: a popContext that closes a pushContext of a single-segment name, with
\* only strictly nested matched pairs of such names in between, leaves
\* getDefaultLoggerName() equal to what it was before that pushContext; by
\* induction the same holds of n nested pairs, from any default logger.
C4_NestedPairsRestoreName ==
    [][(/\ ctxCall'.op = "popContext"
        /\ ctxCall'.result = "ok"
        /\ Len(frames) > 0
        /\ frames[Len(frames)].clean)
       => getDefaultLoggerName' = frames[Len(frames)].before]_ctxVars

\* two nested pairs have been closed and the name is back to the empty one
C4_Witness ==
    /\ ctxRev = "part_000"
    /\ ctxCall.op = "popContext"
    /\ Len(frames) = 0
    /\ <<"a", ".", "a">> \in loggers
    /\ getDefaultLoggerName = Str_empty

\* C8: a pushContext whose name is empty or contains '.' ends with an
\* invalid-argument error and is never accepted.
C8_InvalidNameRejected ==
    (ctxCall.op = "pushContext" /\ ~IsSegment(ctxCall.name))
        => ctxCall.result = "invalid_argument"

\* C9: a pushContext that ends with invalid-argument leaves the default
\* logger and getDefaultLoggerName() as they were before the call.
C9_FailedPushChangesNothing ==
    [][ctxCall'.result = "invalid_argument"
       => /\ defaultLogger' = defaultLogger
          /\ getDefaultLoggerName' = getDefaultLoggerName]_ctxVars

\* a pushContext has failed while a context was in effect
C9_Witness ==
    /\ ctxCall.op = "pushContext"
    /\ ctxCall.name = Str_a_b
    /\ ctxCall.result = "invalid_argument"
    /\ getDefaultLoggerName = Str_a

\* C10: after any successful pushContext and popContext calls,
\* getDefaultLoggerName() is the dot-join of the segments pushed and not yet
\* popped (the empty string at root).
C10_NameIsJoinOfPushed ==
    ctxRev = "part_000" => getDefaultLoggerName = Join(PushedSegments)

\* C11: a popContext() made while the default logger is root is no error and
\* changes nothing: the call returns, the default logger is still root and
\* getDefaultLoggerName() is still empty, however many such pops are made.
C11_PopAtRootIsNoOp ==
    [][(ctxCall'.op = "popContext" /\ defaultLogger.isRoot)
       => (/\ ~crashed'
           /\ ctxCall'.result = "ok"
           /\ defaultLogger'.isRoot
           /\ getDefaultLoggerName' = Str_empty)]_ctxVars

\* C12: when a LogContext is destroyed, by the normal end of its block or by
\* an exception, and the block has left the pushes and the default logger
\* name as they were after the construction, then the destructor has popped exactly as often as the
\* constructor pushed and the default logger name is again what it was before
\* the construction (names without '.').
C12_ScopeRestoresName ==
    [][(/\ Len(scopes') < Len(scopes)
        /\ frames = scopes[Len(scopes)].frames
        /\ getDefaultLoggerName = scopes[Len(scopes)].after
        /\ find(scopes[Len(scopes)].name, ".") = npos)
       => (/\ scopeEnd'.popped = scopeEnd'.pushed
           /\ getDefaultLoggerName' = scopes[Len(scopes)].before)]_<<ctxVars, scopeVars>>

(***************************************************************************)
(* Properties of the configure calls, checked under SpecConf, and of the   *)
(* fallback configuration, checked under SpecInit.                         *)
(***************************************************************************)
\* C13: after configure(), configure(filename) or configure_prop(text) has
\* returned, the current default logger is the root logger and
\* getDefaultLoggerName() is empty, whatever contexts had been pushed before.
C13_ConfigureResetsDefaultLogger ==
    ctxCall.op \in {"configure", "configure_file", "configure_prop"}
    => (/\ defaultLogger.isRoot
        /\ getDefaultLoggerName = Str_empty)

\* C14: configure_prop(text) resets the existing configuration before it
\* applies the properties, as configure(filename) does: after either call the
\* configuration is the one described by the argument applied to a reset
\* hierarchy, with nothing left of an earlier configuration.
C14_NoIncrementalConfigure ==
    confCall.op \in {"configure_file", "configure_prop"}
    => conf = PropertyConfigurator_configure(resetConfiguration, confCall.arg)

\* C15: configure() with no arguments resets the existing configuration and
\* then applies the file LSST_LOG_CONFIG names when it is readable, and the
\* fallback configuration otherwise.
C15_ConfigureResetsThenEnvOrFallback ==
    confCall.op = "configure"
    => conf = (IF confCall.env
               THEN PropertyConfigurator_configure(resetConfiguration, EnvConfig)
               ELSE BasicConfigurator_configure(resetConfiguration))

\* C16: with no configure call made and no readable file named by the
\* environment, the configuration in force once a first message has been
\* handed to the backend is one console appender on the root logger with the
\* level INFO, so that DEBUG and TRACE messages are suppressed.
C16_FallbackIsConsoleAtInfo ==
    (/\ initRev = "part_000"
     /\ ~envReadable
     /\ confCall.op = "none"
     /\ fwdCount >= 1)
    => (/\ conf.appenders = <<"console">>
        /\ conf.level = "INFO"
        /\ ~isEnabledFor("DEBUG", conf.level)
        /\ ~isEnabledFor("TRACE", conf.level))

(***************************************************************************)
(* Properties of the MDC-init registry, checked under SpecMdc.             *)
(***************************************************************************)
Registered(cb) == cb \in Range(mdcInitFunctions)

\* C1, as stated: once a callback is registered, the per-thread counter it
\* increments is exactly 1 on the thread that registered it and on every
\* thread whose first log call began after the registration, whatever number
\* of log calls the thread has made.
C1_CounterExactlyOne ==
    \A t \in Threads, cb \in Callbacks :
        (/\ pc[t] = "idle"
         /\ Registered(cb)
         /\ \/ registrar[cb] = t
            \/ forwarded[t] >= 1 /\ cb \in regAtEntry[t])
        => mdcCounter[t][cb] = 1

\* C1, amended: a callback runs once inside its registration, on the
\* registering thread, and once more in the first log call of every thread
\* that finds it registered, the registering thread included.  So between
\* calls the counter of the registering thread is 2 when its first log call
\* came after the registration and 1 otherwise; the counter of another thread
\* is 0 while it has not logged, 1 when its first log call began after the
\* registration, and never more than 1.
C1_CounterByFirstLog ==
    \A t \in Threads, cb \in Callbacks :
        (pc[t] = "idle" /\ Registered(cb)) =>
            IF registrar[cb] = t
            THEN mdcCounter[t][cb] =
                     IF ~regLoggedBefore[cb] /\ tlsInit[t] THEN 2 ELSE 1
            ELSE /\ mdcCounter[t][cb] <= 1
                 /\ ~tlsInit[t] => mdcCounter[t][cb] = 0
                 /\ (tlsInit[t] /\ cb \in regAtEntry[t]) => mdcCounter[t][cb] = 1

C1_Witness ==
    /\ \A t \in Threads : pc[t] = "idle"
    /\ registrar["f"] = "main" /\ Registered("f")
    /\ forwarded = [t \in Threads |-> 1]
    /\ mdcCounter["main"]["f"] = 2
    /\ mdcCounter["t1"]["f"] = 1
    /\ mdcCounter["t2"]["f"] = 0

\* C2: the first message a thread hands to the backend carries the MDC value
\* of every callback that was registered when that first log call began, for
\* the thread that registered it and for threads started after the
\* registration alike.
C2_InitBeforeFirstRecord ==
    \A t \in Threads :
        firstRecord[t].emitted =>
            \A cb \in regAtEntry[t] : firstRecord[t].mdc[cb] = MdcValue

C2_Witness ==
    /\ registrar["f"] = "main"
    /\ "f" \in regAtSpawn["t1"] /\ "f" \in regAtSpawn["t2"]
    /\ \A t \in Threads :
           /\ firstRecord[t].emitted
           /\ "f" \in regAtEntry[t]
           /\ firstRecord[t].mdc["f"] = MdcValue

(***************************************************************************)
(* Property of the initialisation, checked under SpecInit.                 *)
(***************************************************************************)
\* C3: when the first log call is handed to the backend exactly one
\* establishing action has happened, and no other one happens afterwards,
\* however the threads race to make the first call.
C3_OneEstablishBeforeFirstLog ==
    fwdCount >= 1 => (establishAtFirstFwd = 1 /\ establishCount = 1)

(***************************************************************************)
(* Properties of the logger cache, checked under SpecCache.                *)
(***************************************************************************)
\* C5: between the steps of append, and so whenever an append has completed,
\* the cache holds no more than g_max_lru_cache_size entries, in all three
\* revisions and for every interleaving of the threads.
C5_CacheBounded == Cardinality(DOMAIN m_cache) <= g_max_lru_cache_size

C5_Witness ==
    /\ appRev = "PyLogAppender.cc"
    /\ appCall.op = "store" /\ appCall.inserted /\ appCall.evicted # {}
    /\ Cardinality(DOMAIN m_cache) = g_max_lru_cache_size
    /\ \A t \in AppThreads : apc[t] = "idle"

\* C6: when the store of a new name made the cache evict an entry, and the
\* age counter had not wrapped before, the entry evicted is the one touched
\* least recently, a cache hit in the lookup being a touch (revisions
\* src/src/PyLogAppender.cc and part_003).
C6_EvictsLeastRecentlyTouched ==
    (/\ appRev \in {"PyLogAppender.cc", "part_003"}
     /\ appCall.op = "store" /\ appCall.inserted
     /\ appCall.evicted # {}
     /\ ~appCall.overflowed)
    => appCall.evicted = {appCall.lru}

\* C7: the ages of the entries of the cache are pairwise distinct at all times
\* (revisions part_014 and src/src/PyLogAppender.cc), also after the age
\* counter has wrapped.
C7_AgesDistinct ==
    appRev \in {"part_014", "PyLogAppender.cc"} =>
        \A n \in DOMAIN m_cache, m \in DOMAIN m_cache :
            n # m => m_cache[n] # m_cache[m]

(***************************************************************************)
(* Properties of MDCRegisterInit and of the first log call of a thread,    *)
(* checked under SpecMdc.                                                  *)
(***************************************************************************)
\* C17: when MDCRegisterInit(function) returns, the function has run once, on
\* the calling thread and on no other, it ran before it was stored, it is now
\* the last element of the registry, and the value returned is not zero.
C17_RegisterRunsThenAppends ==
    [][\A t \in Threads :
        (pc[t] = "ri_push" /\ pc'[t] = "idle")
        => (/\ mdcCounter[t][funArg[t]] = 1
            /\ \A s \in Threads \ {t} : mdcCounter[s][funArg[t]] = 0
            /\ ~Registered(funArg[t])
            /\ mdcInitFunctions' = Append(mdcInitFunctions, funArg[t])
            /\ mdcCounter'[t][funArg[t]] = 1
            /\ regReturn'[t].returned
            /\ regReturn'[t].value # 0)]_mdcVars

C17_Witness ==
    \E t \in UseThreads, cb \in Callbacks :
        /\ registrar[cb] = t
        /\ pc[t] = "idle"
        /\ regReturn[t] = [returned |-> TRUE, value |-> 1]
        /\ mdcInitFunctions = <<cb>>
        /\ mdcCounter[t][cb] = 1

\* C18: the functions a thread's first log call has run so far are the first
\* elements of the registry, in the order of the registry, which is the order
\* in which they were registered.
C18_CallbacksRunInRegistrationOrder ==
    \A t \in Threads :
        /\ Len(initOrder[t]) <= Len(mdcInitFunctions)
        /\ initOrder[t] = SubSeq(mdcInitFunctions, 1, Len(initOrder[t]))

C18_Witness ==
    \E t \in UseThreads :
        /\ pc[t] = "idle"
        /\ forwarded[t] >= 1
        /\ Len(initOrder[t]) = 2
        /\ initOrder[t] = mdcInitFunctions

\* C19, as stated: the step that sets a thread's flag is taken while the
\* thread holds the registry mutex and after it has run every registered
\* function.
C19_FlagSetAfterCallbacksUnderMutex ==
    [][\A t \in Threads :
        (~tlsInit[t] /\ tlsInit'[t])
        => (/\ mdcInitMutex = t
            /\ mdcInitMutex' = t
            /\ initOrder[t] = mdcInitFunctions)]_mdcVars

\* C19, amended: the flag is set first: a thread that waits for the registry
\* mutex or runs the functions in its first log call has its flag set
\* already; a flag is set only by the thread's own log call; and when the
\* first message is about to be forwarded every function registered when the
\* call began has run.
C19_FlagSetBeforeMutexAndCallbacks ==
    \A t \in Threads :
        /\ pc[t] \in {"lm_lock", "lm_run"} => tlsInit[t]
        /\ tlsInit[t] => (forwarded[t] >= 1 \/ pc[t] \in {"lm_lock", "lm_run", "lm_fwd"})
        /\ (pc[t] = "lm_fwd" /\ forwarded[t] = 0)
           => regAtEntry[t] \subseteq Range(initOrder[t])

C19_Witness ==
    \E t \in UseThreads :
        /\ tlsInit[t]
        /\ pc[t] = "lm_lock"
        /\ mdcInitMutex # t
        /\ Len(mdcInitFunctions) >= 1
        /\ initOrder[t] = << >>

\* C20: a log call begun with the thread's flag set goes straight to
\* forcedLog and leaves the mutex as it is, and the forwarding step can be
\* taken whoever holds the mutex.
C20_FlaggedLogSkipsMutex ==
    [][\A t \in Threads :
        /\ (tlsInit[t] /\ pc[t] = "idle" /\ pc'[t] \in {"lm_lock", "lm_run", "lm_fwd"})
           => (pc'[t] = "lm_fwd" /\ mdcInitMutex' = mdcInitMutex)
        /\ (pc[t] = "lm_fwd" /\ pc'[t] # "lm_fwd")
           => (/\ pc'[t] = "idle"
               /\ forwarded'[t] = forwarded[t] + 1
               /\ mdcInitMutex' = mdcInitMutex)
        /\ pc[t] = "lm_fwd" => ENABLED logMsg_forward(t)]_mdcVars

C20_Witness ==
    \E t \in UseThreads, s \in Threads :
        /\ s # t
        /\ mdcInitMutex = s
        /\ forwarded[t] >= 1
        /\ pc[t] = "lm_fwd"


\* C21: a function runs on a thread only inside the thread's own
\* MDCRegisterInit call for it or inside the loop of the thread's first log
\* call: a thread that has forwarded a message runs no function in its later
\* log calls, so a function registered after that by another thread never
\* runs there.
C21_LateCallbackNotRunOnInitialisedThread ==
    [][\A t \in Threads, cb \in Callbacks :
        mdcCounter'[t][cb] # mdcCounter[t][cb]
        => (\/ pc[t] = "ri_call" /\ funArg[t] = cb /\ registrar[cb] = t
            \/ pc[t] = "lm_run" /\ forwarded[t] = 0)]_mdcVars

C21_Witness ==
    \E t \in UseThreads, cb \in Callbacks :
        /\ Registered(cb)
        /\ registrar[cb] # t
        /\ cb \notin regAtEntry[t]
        /\ forwarded[t] >= 1
        /\ pc[t] = "lm_fwd"
        /\ mdcCounter[t][cb] = 0

\* the threads that read or change mdcInitFunctions at this moment
InRegistry == {t \in Threads : pc[t] \in {"lm_run", "ri_call", "ri_push"}}

\* C22: with registrations and first log calls of several threads under way,
\* at most one thread is at work on the registry, and it is the holder of the
\* mutex; a function whose registration has returned is in the registry
\* exactly once, one whose registration has not stored it yet is not in it.
C22_RegistryMutuallyExclusive ==
    /\ Cardinality(InRegistry) <= 1
    /\ \A t \in Threads : t \in InRegistry <=> mdcInitMutex = t
    /\ \A cb \in Callbacks :
          Cardinality({i \in DOMAIN mdcInitFunctions : mdcInitFunctions[i] = cb})
          = (IF registrar[cb] # NoThread
                /\ ~(pc[registrar[cb]] \in {"ri_lock", "ri_call", "ri_push"}
                     /\ funArg[registrar[cb]] = cb)
             THEN 1 ELSE 0)

C22_Witness ==
    \E t \in UseThreads, s \in Threads, u \in Threads :
        /\ pc[t] = "ri_push"
        /\ pc[s] = "ri_lock"
        /\ pc[u] = "lm_lock"

(***************************************************************************)
(* Properties of PyLogAppender::append, checked under SpecPy.              *)
(***************************************************************************)
\* what append has done with the record: formatting, makeRecord, the MDC, handle
RecordCalls == {"format", "getMessage", "makeRecord", "getMDC", "setMDC", "handle"}

\* C23: every access append makes to a Python object, the copy of the cached
\* logger reference and its release included, is made by a thread that holds
\* the GIL.
C23_PythonAccessUnderGil == pyUnguarded = {}

\* C24: the enabled-check comes after the logger has been resolved and
\* remembered in the cache and before anything is done for the record, and
\* when the logger answers that the level is not enabled, the call formats
\* nothing, makes no record and handles none.
C24_EnabledCheckBeforeRecord ==
    \A t \in AppThreads :
        /\ \A i \in DOMAIN pyCalls[t] :
              /\ pyCalls[t][i] \in RecordCalls
                 => \E j \in 1..(i - 1) : pyCalls[t][j] = "isEnabledFor"
              /\ pyCalls[t][i] = "isEnabledFor"
                 => \E j \in 1..(i - 1) : pyCalls[t][j] = "emplace"
        /\ ("isEnabledFor" \in Range(pyCalls[t]) /\ pyEvent[t].answer = "false")
           => Range(pyCalls[t]) \cap RecordCalls = {}

C24_Witness ==
    \E t \in AppThreads :
        /\ ppc[t] = "unwind"
        /\ pyEvent[t].answer = "false"
        /\ pyCalls[t] = <<"find", "getLogger", "emplace", "isEnabledFor">>
        /\ pyResult[t] = "ok"

\* C25: an append call in which a call into Python has failed ends with a
\* runtime error.
C25_FailureRaisesRuntimeError ==
    \A t \in AppThreads :
        (ppc[t] = "unwind" /\ pyFailed[t].call # "none")
        => pyResult[t] = "runtime_error"

C27_MacroForwardsOnlyEnabledLevels ==
    /\ level = "INFO" =>
          \A i \in 1..Len(Levels) :
              Log_isEnabledFor(Levels[i]) <=> Levels[i] \notin {"TRACE", "DEBUG"}
    /\ \A i \in 1..Len(delivered) :
          delivered[i].entry = "LOGS" =>
              isEnabledFor(delivered[i].level, delivered[i].threshold)

\* the macro has handed on a message of level INFO for a logger of level INFO
C27_Witness ==
    /\ level = "INFO"
    /\ \E i \in 1..Len(delivered) :
          /\ delivered[i].entry = "LOGS"
          /\ delivered[i].threshold = "INFO"
          /\ delivered[i].level = "INFO"

\* C27 as stated: no message below the logger's level is handed to forcedLog,
\* whichever entry point the client uses
C27_NothingBelowThresholdForwarded ==
    \A i \in 1..Len(delivered) :
        isEnabledFor(delivered[i].level, delivered[i].threshold)

\* the messages of thread t that were handed to forcedLog, in order
DeliveredOf(t) == SelectSeq(delivered, LAMBDA r : r.thread = t)

\* C30: the messages of one thread reach forcedLog in the order of its log
\* calls: the k-th message of a thread that is handed on is the message of
\* its k-th call, and a call begins only when the call before has handed on
\* its message
C30_DeliveredInProgramOrder ==
    \A t \in Threads :
        /\ \A k \in 1..Len(DeliveredOf(t)) : DeliveredOf(t)[k].n = k
        /\ Len(DeliveredOf(t)) = issued[t] - (IF ucall[t].pending THEN 1 ELSE 0)

\* a thread has had two messages handed on, with a message of another thread
\* between them
C30_Witness ==
    \E i, j, k \in 1..Len(delivered) :
        /\ i < j /\ j < k
        /\ delivered[i].thread = delivered[k].thread
        /\ delivered[j].thread # delivered[i].thread

\* C29: an MDC entry of a thread changes only in a call of MDCRemove for its
\* key made by the thread, whatever log calls and context pushes and pops
\* happen, and an MDCRemove for a key that has no entry changes no MDC
C29_MdcEntryStaysUntilRemoved ==
    [][\A t \in Threads, k \in Callbacks :
          /\ (mdc[t][k] # MdcUnset /\ mdc'[t][k] # mdc[t][k]) =>
                /\ useOps' = useOps + 1
                /\ lastOp' = [op |-> "MDCRemove", thread |-> t, key |-> k]
          /\ (/\ useOps' = useOps + 1
              /\ lastOp' = [op |-> "MDCRemove", thread |-> t, key |-> k]
              /\ mdc[t][k] = MdcUnset) => mdc' = mdc]_<<mdcVars, useVars>>

\* a thread that has logged under a pushed context still has the entry it put,
\* after removing a key that has no entry
C29_Witness ==
    \E t \in Threads :
        /\ lastOp = [op |-> "MDCRemove", thread |-> t, key |-> "g"]
        /\ mdc[t]["f"] = MdcValue
        /\ mdc[t]["g"] = MdcUnset
        /\ forwarded[t] > 0
        /\ ~defaultLogger.isRoot

\* C28, as far as it holds: two handles getLogger returned for the same name
\* that is not empty are the same logger, whatever pushContext, popContext and
\* configure calls lie between, and getLogger(handle) returns its argument
C28_SameNameSameLogger ==
    /\ \A h1, h2 \in handles :
          (h1.name = h2.name /\ ~empty(h1.name)) => h1.node = h2.node
    /\ lastGet.byHandle => lastGet.result = lastGet.arg

\* the client has asked for the same name at two times, a configure call has
\* been made, and the last call handed a handle through
C28_Witness ==
    /\ \E h1, h2 \in handles :
          h1.name = Str_a /\ h2.name = Str_a /\ ~h1.again /\ h2.again
    /\ confCall # NoConfCall
    /\ lastGet.byHandle
    /\ lastGet.arg = getLogger_log4cxx(Str_a)

\* C28 as stated: two handles for the same name are the same logger, also for
\* the empty name
C28_AnyNameSameLogger ==
    \A h1, h2 \in handles : h1.name = h2.name => h1.node = h2.node

(***************************************************************************)
(* Properties of registered functions that log or call Python, checked     *)
(* under SpecCb.                                                           *)
(***************************************************************************)
\* C31: a log call made inside a registered function goes through to
\* forcedLog: it neither blocks on mdcInitMutex nor ends in an exception,
\* whether the function was called by the loop of a first log call or by
\* MDCRegisterInit
C31_NestedLogCompletes ==
    \A t \in Threads : pc[t] \notin {"in_stuck", "in_threw"}

\* C32: never does a thread that holds the GIL wait in MDCRegisterInit for
\* mdcInitMutex while the thread that holds mdcInitMutex waits in
\* callable_wrapper for the GIL
C32_NoMutexGilDeadlock ==
    \A a, b \in Threads :
        ~ /\ a # b
          /\ pc[a] = "ri_lock" /\ cbGil = a
          /\ pc[b] = "cb_gil" /\ mdcInitMutex = b
          /\ cbFrom[b] = "lm_run"

C37_RaiseLeavesNoLock ==
    [][\A t \in LockThreads :
          (lpc[t] = "reraise" /\ lpc'[t] = "idle")
              => /\ m_cache_mutex' # t
                 /\ gil' # t
                 /\ Cardinality(DOMAIN m_cache') <= g_max_lru_cache_size
      ]_<<cacheVars, lockVars>>

\* C37, amended: when append ends by the runtime error of reraise, the
\* calling thread does not hold the cache mutex, it holds the GIL only if it
\* held it when it called append, and the cache has at most
\* g_max_lru_cache_size entries.
C37_RaiseRestoresLocks ==
    [][\A t \in LockThreads :
          (lpc[t] = "reraise" /\ lpc'[t] = "idle")
              => /\ m_cache_mutex' # t
                 /\ gil' = t <=> gil_state[t] = "LOCKED"
                 /\ Cardinality(DOMAIN m_cache') <= g_max_lru_cache_size
      ]_<<cacheVars, lockVars>>

\* an append that stored its logger in a full cache and then failed has
\* ended with the error; the thread had not held the GIL before
C37_Witness ==
    \E t \in LockThreads :
        /\ lkExit[t] = "error"
        /\ lpc[t] = "idle"
        /\ gil_state[t] = "UNLOCKED"
        /\ logger_name[t] \in DOMAIN m_cache
        /\ Cardinality(DOMAIN m_cache) = g_max_lru_cache_size

(***************************************************************************)
(* Properties of the entry an append has just inserted, checked under      *)
(* SpecCache.                                                              *)
(***************************************************************************)
\* C34: at the end of the block in which append inserts a logger name into
\* the cache the name is in the cache: the eviction loop that follows the
\* emplace does not remove the entry just inserted, also after the age
\* counter has wrapped around.
C34_InsertedEntryKept ==
    (appCall.op = "store" /\ appCall.inserted)
        => appCall.name \notin appCall.evicted

(***************************************************************************)
(* The default logger and its name across configure calls, checked under   *)
(* SpecConf.                                                               *)
(***************************************************************************)
\* C36: at every point getDefaultLoggerName() is the name of the logger to
\* which log calls to the default logger are delivered, the empty name for the
\* root logger, also after a configure call made while contexts are pushed
\* and after the pops that follow it.
C36_NameNamesDefaultLogger ==
    ~crashed => getDefaultLoggerName = getName(defaultLogger)

vars == <<ctxVars, scopeVars, mdcVars, initVars, cacheVars, pyVars, useVars,
          cbVars, lockVars>>

\* the context model at rest, as the other models see it
CtxQuiet ==
    /\ CtxInit
    /\ ctxRev = "part_000"

Init == CtxInit /\ ScopeQuiet /\ MdcInit /\ LazyQuiet /\ CacheQuiet /\ PyQuiet /\ UseInit /\ CbQuiet /\ LockQuiet

SpecCtx ==
    Init /\ [][CtxNext]_vars

InitMdc == CtxQuiet /\ ScopeQuiet /\ MdcInit /\ LazyQuiet /\ CacheQuiet /\ PyQuiet /\ UseInit /\ CbQuiet /\ LockQuiet

SpecMdc ==
    InitMdc /\ [][MdcNext]_vars

InitLazy == CtxQuiet /\ ScopeQuiet /\ MdcInit /\ LazyInit /\ CacheQuiet /\ PyQuiet /\ UseInit /\ CbQuiet /\ LockQuiet

SpecInit ==
    InitLazy /\ [][LazyNext]_vars

InitScope == CtxInit /\ ScopeInit /\ MdcInit /\ LazyQuiet /\ CacheQuiet /\ PyQuiet /\ UseInit /\ CbQuiet /\ LockQuiet

SpecScope ==
    InitScope /\ [][ScopeNext]_vars

InitConf ==
    /\ ConfInit
    /\ CtxInit
    /\ ctxRev = (IF initRev = "part_013" THEN "part_013" ELSE "part_000")
    /\ ScopeQuiet /\ MdcInit /\ CacheQuiet /\ PyQuiet /\ UseInit /\ CbQuiet /\ LockQuiet
SpecConf == InitConf /\ [][ConfNext]_vars
InitCache == CtxQuiet /\ ScopeQuiet /\ MdcInit /\ LazyQuiet /\ CacheInit /\ PyQuiet /\ UseInit /\ CbQuiet /\ LockQuiet

SpecCache ==
    InitCache /\ [][CacheNext]_vars

InitPy == CtxQuiet /\ ScopeQuiet /\ MdcInit /\ LazyQuiet /\ CacheQuiet /\ PyInit /\ UseInit /\ CbQuiet /\ LockQuiet

SpecPy ==
    InitPy /\ [][PyNext]_vars

InitUse == CtxQuiet /\ ScopeQuiet /\ MdcInit /\ LazyQuiet /\ CacheQuiet /\ PyQuiet /\ UseInit /\ CbQuiet /\ LockQuiet

SpecUse ==
    InitUse /\ [][UseNext]_vars

SpecKeys ==
    InitUse /\ [][KeysNext]_vars

InitHandle ==
    /\ initRev \in {"part_000", "Log.cc"}
    /\ StaticInit
    /\ CtxQuiet
    /\ ScopeQuiet /\ MdcInit /\ CacheQuiet /\ PyQuiet /\ UseInit /\ CbQuiet /\ LockQuiet

SpecHandle ==
    InitHandle /\ [][HandleNext]_vars

InitCb == CtxQuiet /\ ScopeQuiet /\ MdcInit /\ LazyQuiet /\ CacheQuiet /\ PyQuiet /\ UseInit /\ CbInit /\ LockQuiet

SpecCb ==
    InitCb /\ [][CbNext]_vars

InitLock ==
    /\ CtxQuiet /\ ScopeQuiet /\ MdcInit /\ LazyQuiet /\ PyQuiet /\ UseInit /\ CbQuiet
    /\ CacheInit
    /\ appRev \in LockRevs
    /\ LockInit

SpecLock ==
    InitLock /\ [][LockNext]_vars

\* the steps of a thread that wait for a lock
append_acquire(t) ==
    \/ append_find_lock(t)
    \/ append_GilGuard(t)
    \/ append_store_lock(t)

\* the steps of a thread that wait for nothing
append_proceed(t) ==
    \/ append_find_unlock(t)
    \/ \E found \in BOOLEAN : append_getLogger(t, found)
    \/ append_store_unlock(t)
    \/ \E ok \in BOOLEAN : append_forward(t, ok)
    \/ append_leave(t)
    \/ interpreter_drop(t)

\* a thread that can take a step takes it; a thread that waits for a lock
\* that is free again and again gets it; the interpreter switches away from
\* a thread that runs Python code
LockFairness ==
    \A t \in LockThreads :
        /\ SF_vars(append_acquire(t))
        /\ WF_vars(append_proceed(t))

SpecLockFair ==
    SpecLock /\ LockFairness

InitFallback ==
    /\ FallbackInit
    /\ CtxQuiet
    /\ ScopeQuiet /\ MdcInit /\ CacheQuiet /\ PyQuiet /\ UseInit /\ CbQuiet /\ LockQuiet

SpecFallback ==
    InitFallback /\ [][FallbackNext]_vars
====
